---- MODULE Spec2Model ----
(***************************************************************************)
(* A model of the cirq circuit editor (src/cirq/core.py): the connection   *)
(* policy of Domain.valid_connection, the adjacency bookkeeping of         *)
(* Connection, the Circuit message handlers, the CircuitBuilder dialogs    *)
(* and the to_jsonifiable / from_jsonifiable conversion.                   *)
(*                                                                         *)
(* Python objects are heap entries: an object is a record                  *)
(* [kind, o, i] (its class and an identity), `is` is equality of these     *)
(* records, and the heaps port / instance / connection hold the traits of  *)
(* the objects that are still referenced.                                  *)
(***************************************************************************)
EXTENDS Integers, Sequences, FiniteSets, TLC

VARIABLES
    circuit,     \* the traits of the Circuit widget
    port,        \* Port object -> its traits
    instance,    \* ComponentInstance object -> its traits
    connection,  \* Connection object -> its traits
    last,        \* how the last call ended
    nets,        \* what the last call returned, when it was get_nets
    svg          \* the snapshot requests, callbacks and snapshots of the circuit

vars == <<circuit, port, instance, connection, last, nets, svg>>

----------------------------------------------------------------------------
(* Bounds of the model *)

\* external Port objects the builder keeps alive at one time
MaxPorts == 1
\* ComponentInstance objects the builder keeps alive at one time
MaxInstances == 1
\* Connection objects alive at one time
MaxConnections == 2
\* calls of capture_svg
MaxRequests == 3

----------------------------------------------------------------------------
(* Objects *)

NoneObj == [kind |-> "None", o |-> 0, i |-> 0]
CircuitObj == [kind |-> "Circuit", o |-> 0, i |-> 0]
PortObj(o, i) == [kind |-> "Port", o |-> o, i |-> i]
InstanceObj(i) == [kind |-> "ComponentInstance", o |-> 0, i |-> i]
ConnectionObj(i) == [kind |-> "Connection", o |-> 0, i |-> i]

IsInstance(x, cls) == x.kind = cls

\* No snapshot asked for yet.  A callback is known by the number of the
\* capture_svg call that registered it, a snapshot by the number of the
\* captured_svg event that brought it.
\*   requests   calls of capture_svg so far
\*   pending    the requests the front-end has not answered yet, oldest first
\*   callbacks  _svg_callbacks
\*   snapshots  svg_snapshots
\*   called     the callback the last captured_svg event invoked, and that
\*              event's data; by = 0 when it invoked none
\*   files      the names of the image files written so far
NoSvg == [requests |-> 0, pending |-> <<>>, callbacks |-> <<>>,
          snapshots |-> <<>>, called |-> [by |-> 0, data |-> 0],
          files |-> {}]

\* the value of nets after a call that was not get_nets
NoNets == [domain |-> "", value |-> <<>>]

\* the values of a list, and `x in ll` (equality of these objects is identity)
Range(ll) == {ll[k] : k \in DOMAIN ll}
In(x, ll) == \E k \in DOMAIN ll : ll[k] = x

\* filter(lambda c: c is not x, ll)
RECURSIVE RemoveSelf(_, _)
RemoveSelf(x, ll) ==
    IF ll = <<>> THEN <<>>
    ELSE IF Head(ll) = x THEN RemoveSelf(x, Tail(ll))
         ELSE <<Head(ll)>> \o RemoveSelf(x, Tail(ll))

\* AttrDict({e.name: e for e in ll}): a later element wins a repeated name
AttrDictOf(ll, heap) ==
    [n \in {heap[ll[k]].name : k \in DOMAIN ll} |->
        LET ks == {k \in DOMAIN ll : heap[ll[k]].name = n}
        IN  ll[CHOOSE k \in ks : \A j \in ks : j <= k]]

----------------------------------------------------------------------------
(* The inputs of the editor: the domains and the component types handed to *)
(* the CircuitBuilder, and the texts typed into its dialogs.               *)

\* Domain objects, by name: fieldmode and electrical are the test's, signal
\* is a causal domain with the default one2one = False
Domain ==
    [fieldmode  |-> [name |-> "fieldmode",  causal |-> TRUE,  one2one |-> TRUE],
     signal     |-> [name |-> "signal",     causal |-> TRUE,  one2one |-> FALSE],
     electrical |-> [name |-> "electrical", causal |-> FALSE, one2one |-> FALSE]]

DomainNames == DOMAIN Domain

PortInfo(n, d, dir) == [name |-> n, domain |-> d, direction |-> dir]

\* ComponentType objects, by name, with their template ports
ComponentType ==
    [Phase |-> [name |-> "Phase",
                ports |-> <<PortInfo("In1", "fieldmode", "in"),
                            PortInfo("Control", "electrical", "inout"),
                            PortInfo("Out1", "fieldmode", "out")>>],
     Amp   |-> [name |-> "Amp",
                ports |-> <<PortInfo("In1", "signal", "in"),
                            PortInfo("Out1", "signal", "out")>>],
     Tee   |-> [name |-> "Tee",
                ports |-> <<PortInfo("X", "electrical", "inout"),
                            PortInfo("Y", "electrical", "inout")>>],
     Beamsplitter |-> [name |-> "Beamsplitter",
                       ports |-> <<PortInfo("In1", "fieldmode", "in"),
                                   PortInfo("In2", "fieldmode", "in"),
                                   PortInfo("Out1", "fieldmode", "out"),
                                   PortInfo("Out2", "fieldmode", "out")>>],
     Sink  |-> [name |-> "Sink",
                ports |-> <<PortInfo("In1", "fieldmode", "in")>>]]

TypeNames == DOMAIN ComponentType

\* texts of the dialogs' name fields
CircuitNameTexts == {"", "MZ", "phi"}
ComponentNameTexts == {"", "phi", "MZ"}
PortNameTexts == {"", "In1", "X"}
\* the direction dropdown of the add-port dialog
DirectionValues == {"in", "out"}

----------------------------------------------------------------------------
(* Port *)

\* Port.is_ext
IsExt(p) == IsInstance(port[p].parent, "Circuit")

\* Port.is_source
IsSource(p) ==
    port[p].direction = "out" \/ (port[p].direction = "in" /\ IsExt(p))

\* Port.is_target
IsTarget(p) ==
    port[p].direction = "in" \/ (port[p].direction = "out" /\ IsExt(p))

----------------------------------------------------------------------------
(* Domain.valid_connection *)

Rejected == [ok |-> FALSE, source |-> NoneObj, target |-> NoneObj]
Accepted(s, t) == [ok |-> TRUE, source |-> s, target |-> t]

\* valid_connection that accepts every pair
ValidConnectionAcceptsAll(p1, p2) == Accepted(p1, p2)

\* Domain.valid_connection(p1, p2): False, or the pair (source, target).
\* `p2 in p1.connections_out` asks whether the Port p2 is an element of a
\* list of Connection objects.
ValidConnection(p1, p2) ==
    LET causal == Domain[port[p1].domain].causal
        one2one == Domain[port[p1].domain].one2one
        p1t == IsTarget(p1)
        p1s == IsSource(p1)
        p2t == IsTarget(p2)
        p2s == IsSource(p2)
    IN
    IF p1 = p2 THEN Rejected
    ELSE IF port[p1].domain # port[p2].domain THEN Rejected
    ELSE IF causal THEN
        IF p1s /\ p2t THEN
            IF In(p2, port[p1].connections_out) THEN Rejected
            ELSE IF one2one
                    /\ Len(port[p1].connections_out) + Len(port[p1].connections_in) > 0
                 THEN Rejected
            ELSE Accepted(p1, p2)
        ELSE IF p2s /\ p1t THEN
            IF In(p2, port[p1].connections_in) THEN Rejected
            ELSE IF one2one
                    /\ Len(port[p1].connections_in) + Len(port[p2].connections_out) > 0
                 THEN Rejected
            ELSE Accepted(p2, p1)
        ELSE Rejected
    ELSE
        IF In(p1, port[p2].connections_in) \/ In(p1, port[p2].connections_out)
        THEN Rejected
        ELSE Accepted(p1, p2)

----------------------------------------------------------------------------
(* The state of the program as one value, so that a handler is a function  *)
(* from state to state and handlers compose in the order of the code.      *)

State == [circuit |-> circuit, port |-> port,
          instance |-> instance, connection |-> connection,
          domain |-> Domain, ctype |-> ComponentType]

\* Port(name=n, domain=d, direction=dir), not yet owned
NewPort(n, d, dir) ==
    [name |-> n, domain |-> d, direction |-> dir, parent |-> NoneObj,
     connections_in |-> <<>>, connections_out |-> <<>>, on_msg |-> FALSE]

\* the values of the trait direction, and None for a trait not yet assigned
DirectionEnum == {"in", "out", "inout"}
NoneValue == ""

\* Port(): no keyword assigned yet
BarePort == NewPort("n", NoneValue, NoneValue)

\* p.direction = dir on the port traits pt: the value is stored and, when it
\* differs from the old one, _direction_changed is called and may raise
SetDirection(pt, dir) ==
    [port |-> [pt EXCEPT !.direction = dir],
     raised |-> /\ pt.direction # dir
                /\ pt.domain # NoneValue
                /\ Domain[pt.domain].causal
                /\ dir \notin {"in", "out"}]

\* p.domain = d on the port traits pt: the value is stored and, when it
\* differs from the old one, _domain_changed is called
SetDomain(pt, d) ==
    LET stored == [pt EXCEPT !.domain = d] IN
    IF pt.domain = d THEN [port |-> pt, raised |-> FALSE]
    ELSE IF Domain[d].causal
         THEN IF stored.direction = "inout"
              THEN SetDirection(stored, "in")
              ELSE [port |-> stored, raised |-> FALSE]
         ELSE SetDirection(stored, "inout")

\* Port(name=n, domain=d, direction=dir): the keywords are assigned in the
\* order of a dict, domain before direction or direction before domain, and
\* an assignment that raises ends the construction
ConstructedPort(n, d, dir, domain_first) ==
    LET named == [BarePort EXCEPT !.name = n]
        dom1 == SetDomain(named, d)
        dir2 == SetDirection(dom1.port, dir)
        dir1 == SetDirection(named, dir)
        dom2 == SetDomain(dir1.port, d)
    IN  IF domain_first
        THEN (IF dom1.raised THEN dom1 ELSE dir2)
        ELSE (IF dir1.raised THEN dir1 ELSE dom2)

\* the objects a list of ports, instances or connections may still reach
PortsOfInstances(st, is) ==
    UNION {Range(st.instance[i].ports) : i \in is \cap DOMAIN st.instance}

\* The objects still referenced from the circuit (or from the selection):
\* everything else is garbage and its identity is free for a new object.
RECURSIVE Reach(_, _, _)
Reach(st, ps, cs) ==
    LET cs2 == cs \cup UNION {Range(st.port[q].connections_in)
                                \cup Range(st.port[q].connections_out) : q \in ps}
        ps2 == ps \cup {st.connection[c].source : c \in cs2}
                  \cup {st.connection[c].target : c \in cs2}
    IN  IF ps2 = ps /\ cs2 = cs THEN [ports |-> ps, connections |-> cs]
        ELSE Reach(st, ps2, cs2)

Collect(st) ==
    LET sel == st.circuit.selected_element
        is0 == Range(st.circuit.component_instances)
                 \cup {st.circuit.c[n] : n \in DOMAIN st.circuit.c}
                 \cup (IF IsInstance(sel, "ComponentInstance") THEN {sel} ELSE {})
        ps0 == Range(st.circuit.ports)
                 \cup {st.circuit.p[n] : n \in DOMAIN st.circuit.p}
                 \cup PortsOfInstances(st, is0)
                 \cup (IF IsInstance(sel, "Port") THEN {sel} ELSE {})
                 \cup {q \in DOMAIN st.port : IsInstance(st.port[q].parent, "ComponentType")}
        cs0 == Range(st.circuit.connections)
                 \cup (IF IsInstance(sel, "Connection") THEN {sel} ELSE {})
        r == Reach(st, ps0, cs0)
        is1 == is0 \cup {st.port[q].parent : q \in
                          {q \in r.ports : IsInstance(st.port[q].parent, "ComponentInstance")}}
        ps1 == r.ports \cup PortsOfInstances(st, is1)
    IN  [st EXCEPT !.port = [q \in ps1 |-> st.port[q]],
                   !.instance = [i \in is1 |-> st.instance[i]],
                   !.connection = [c \in r.connections |-> st.connection[c]]]

\* the handler ends in state st; ret is how it ended: "done", "ignored" (it
\* returned early), "rejected" (connect refused the pair) or the error raised
Return(st, ret) ==
    LET g == Collect(st)
    IN  /\ circuit' = g.circuit
        /\ port' = g.port
        /\ instance' = g.instance
        /\ connection' = g.connection
        /\ last' = ret
        /\ nets' = NoNets
        /\ svg' = svg

\* the handler returns (or raises) ret and has changed nothing
Ignore(ret) ==
    /\ UNCHANGED <<circuit, port, instance, connection, svg>>
    /\ last' = ret
    /\ nets' = NoNets

----------------------------------------------------------------------------
(* Connection *)

\* Connection(source=s, target=t): _source_changed and _target_changed
\* register the new object c with its two ports
NewConnection(st, c, s, t) ==
    LET p1 == [st.port EXCEPT ![s].connections_out = Append(@, c)]
        p2 == [p1 EXCEPT ![t].connections_in = Append(@, c)]
    IN  [st EXCEPT !.port = p2,
                   !.connection = [x \in DOMAIN st.connection \cup {c} |->
                                     IF x = c THEN [source |-> s, target |-> t]
                                     ELSE st.connection[x]]]

\* Connection.remove without the last filter: the target keeps the connection
RemoveKeepsTarget(st, c) ==
    LET s == st.connection[c].source
        p1 == [st.port EXCEPT ![s].connections_out = RemoveSelf(c, @)]
    IN  [st EXCEPT !.circuit.connections = RemoveSelf(c, @),
                   !.port = p1]

\* Connection.remove that empties the source's list instead of filtering it
RemoveClearsSource(st, c) ==
    LET s == st.connection[c].source
        t == st.connection[c].target
        p1 == [st.port EXCEPT ![s].connections_out = <<>>]
        p2 == [p1 EXCEPT ![t].connections_in = RemoveSelf(c, @)]
    IN  [st EXCEPT !.circuit.connections = RemoveSelf(c, @),
                   !.port = p2]

\* Connection.remove that drops the last connection of the circuit when it
\* does not find itself
RemovePopsLast(st, c) ==
    LET s == st.connection[c].source
        t == st.connection[c].target
        ll == st.circuit.connections
        p1 == [st.port EXCEPT ![s].connections_out = RemoveSelf(c, @)]
        p2 == [p1 EXCEPT ![t].connections_in = RemoveSelf(c, @)]
    IN  [st EXCEPT !.circuit.connections = IF In(c, ll) THEN RemoveSelf(c, ll)
                                           ELSE SubSeq(ll, 1, Len(ll) - 1),
                   !.port = p2]

\* Connection.remove
Remove(st, c) ==
    LET s == st.connection[c].source
        t == st.connection[c].target
        p1 == [st.port EXCEPT ![s].connections_out = RemoveSelf(c, @)]
        p2 == [p1 EXCEPT ![t].connections_in = RemoveSelf(c, @)]
    IN  [st EXCEPT !.circuit.connections = RemoveSelf(c, @),
                   !.port = p2]

\* for cc in ll: cc.remove()
RECURSIVE RemoveEach(_, _)
RemoveEach(st, ll) ==
    IF ll = <<>> THEN st ELSE RemoveEach(Remove(st, Head(ll)), Tail(ll))

----------------------------------------------------------------------------
(* Trait assignments of the Circuit and the handlers they notify.  res     *)
(* pairs the state reached with whether the handler raised.                *)

Result(st, raised) == [st |-> st, raised |-> raised]

\* circuit.ports = new: HasTraits stores the value and, when it differs from
\* the old one, calls Circuit._ports_changed, which calls
\* HasPorts._ports_changed first
SetPorts(st, new) ==
    IF new = st.circuit.ports THEN Result(st, FALSE)
    ELSE
        LET owned == [q \in DOMAIN st.port |->
                        IF In(q, new) THEN [st.port[q] EXCEPT !.parent = CircuitObj]
                        ELSE st.port[q]]
            p == AttrDictOf(new, owned)
            raised == Cardinality(DOMAIN p) # Len(new)
            listening == [q \in DOMAIN owned |->
                            IF In(q, new) THEN [owned[q] EXCEPT !.on_msg = TRUE]
                            ELSE owned[q]]
        IN  Result([st EXCEPT !.circuit.ports = new,
                              !.circuit.p = p,
                              !.port = IF raised THEN owned ELSE listening],
                   raised)

\* circuit.component_instances = new, and Circuit._component_instances_changed
SetComponentInstances(st, new) ==
    IF new = st.circuit.component_instances THEN Result(st, FALSE)
    ELSE
        LET c == AttrDictOf(new, st.instance)
            raised == Cardinality(DOMAIN c) # Len(new)
            mine == PortsOfInstances(st, Range(new))
            listening == [q \in DOMAIN st.port |->
                            IF q \in mine THEN [st.port[q] EXCEPT !.on_msg = TRUE]
                            ELSE st.port[q]]
        IN  Result([st EXCEPT !.circuit.component_instances = new,
                              !.circuit.c = c,
                              !.port = IF raised THEN st.port ELSE listening],
                   raised)

----------------------------------------------------------------------------
(* Circuit.connect *)

\* the identities no live object holds
FreePorts == {i \in 1..MaxPorts : PortObj(0, i) \notin DOMAIN port}
FreeInstances == {i \in 1..MaxInstances : InstanceObj(i) \notin DOMAIN instance}
FreeConnections == {i \in 1..MaxConnections : ConnectionObj(i) \notin DOMAIN connection}
Least(S) == CHOOSE i \in S : \A j \in S : i <= j

\* connect that goes on whatever valid_connection answers
ConnectNeverRefuses(p1, p2, verify) == FALSE

\* connect that asks valid_connection whatever verify says
ConnectAlwaysVerifies(p1, p2, verify) == ~ValidConnection(p1, p2).ok

\* whether connect(p1, p2, verify) returns at its first line
ConnectRefuses(p1, p2, verify) == verify /\ ~ValidConnection(p1, p2).ok

\* the (source, target) connect hands to Connection(...)
ConnectOrientation(p1, p2) ==
    IF Domain[port[p1].domain].causal /\ ~IsSource(p1)
    THEN <<p2, p1>> ELSE <<p1, p2>>

\* Circuit.connect(p1, p2, verify) past its first line: the new Connection c
\* is built and appended to circuit.connections
ConnectOn(st, c, p1, p2) ==
    LET st1 == NewConnection(st, c, ConnectOrientation(p1, p2)[1],
                                    ConnectOrientation(p1, p2)[2])
    IN  [st1 EXCEPT !.circuit.connections = Append(@, c)]

\* the ports, instances and connections the front-end shows
ShownPorts ==
    Range(circuit.ports) \cup PortsOfInstances(State, Range(circuit.component_instances))
ShownInstances == Range(circuit.component_instances)
ShownConnections == Range(circuit.connections)

\* circuit.connect(p1, p2)
Connect(p1, p2) ==
    IF ConnectRefuses(p1, p2, TRUE)
    THEN Ignore("rejected")
    ELSE /\ FreeConnections # {}
         /\ Return(ConnectOn(State, ConnectionObj(Least(FreeConnections)), p1, p2),
                   "done")

\* circuit.connect(p1, p2, verify=False)
ConnectUnverified(p1, p2) ==
    IF ConnectRefuses(p1, p2, FALSE)
    THEN Ignore("rejected")
    ELSE /\ FreeConnections # {}
         /\ Return(ConnectOn(State, ConnectionObj(Least(FreeConnections)), p1, p2),
                   "done")

\* circuit.selected_element.remove() for a selected connection, which may
\* have been removed before
RemoveSelected ==
    /\ IsInstance(circuit.selected_element, "Connection")
    /\ Return(Remove(State, circuit.selected_element), "done")

\* Circuit.delete_connection(c)
DeleteConnection(c) ==
    Return(Remove(State, c), "done")

----------------------------------------------------------------------------
(* Messages of the front-end *)

\* port_msg that always ends with the clicked port selected
PortMsgSelectsClicked(p) ==
    LET se == circuit.selected_element IN
    /\ port[p].on_msg
    /\ IF IsInstance(se, "Port") /\ p # se /\ ValidConnection(se, p).ok
       THEN /\ FreeConnections # {}
            /\ Return([ConnectOn(State, ConnectionObj(Least(FreeConnections)), se, p)
                          EXCEPT !.circuit.selected_element = p],
                      "done")
       ELSE Return([State EXCEPT !.circuit.selected_element = p],
                   "done")

\* port_msg that keeps the selected port selected when it is clicked
PortMsgNeverDeselects(p) ==
    LET se == circuit.selected_element IN
    /\ port[p].on_msg
    /\ IF IsInstance(se, "Port") /\ p # se /\ ValidConnection(se, p).ok
       THEN Connect(se, p)
       ELSE Return([State EXCEPT !.circuit.selected_element = p],
                   "done")

\* Circuit.port_msg(p, "click")
PortMsg(p) ==
    LET se == circuit.selected_element IN
    /\ port[p].on_msg
    /\ IF IsInstance(se, "Port") /\ p = se
       THEN Return([State EXCEPT !.circuit.selected_element = NoneObj],
                   "done")
       ELSE IF IsInstance(se, "Port") /\ ValidConnection(se, p).ok
       THEN Connect(se, p)
       ELSE Return([State EXCEPT !.circuit.selected_element = p],
                   "done")

\* Circuit.component_msg(c, "click")
ComponentMsg(c) ==
    IF circuit.selected_element = c
    THEN Ignore("ignored")
    ELSE Return([State EXCEPT !.circuit.selected_element = c],
                "done")

\* connection_msg that removes the connection at the first click
ConnectionMsgRemovesAtOnce(c) ==
    Return([Remove(State, c) EXCEPT !.circuit.selected_element = NoneObj],
           "done")

\* Circuit.connection_msg(c, "click")
ConnectionMsg(c) ==
    IF circuit.selected_element = c
    THEN Return([Remove(State, c) EXCEPT !.circuit.selected_element = NoneObj],
                "done")
    ELSE Return([State EXCEPT !.circuit.selected_element = c],
                "done")

\* msg("click") that also empties circuit.connections
MsgDropsConnections ==
    Return([State EXCEPT !.circuit.selected_element = NoneObj,
                         !.circuit.connections = <<>>],
           "done")

\* Circuit.msg("click")
Msg ==
    IF circuit.selected_element # NoneObj
    THEN Return([State EXCEPT !.circuit.selected_element = NoneObj],
                "done")
    ELSE Ignore("ignored")

\* Circuit.capture_svg(callback): with_callback tells whether a callback
\* is given
CaptureSvg(with_callback) ==
    /\ svg.requests < MaxRequests
    /\ UNCHANGED <<circuit, port, instance, connection>>
    /\ last' = "done"
    /\ nets' = NoNets
    /\ svg' = [svg EXCEPT
                 !.requests = @ + 1,
                 !.pending = Append(@, svg.requests + 1),
                 !.callbacks = IF with_callback THEN Append(@, svg.requests + 1) ELSE @]

\* a captured_svg event that calls the first callback and keeps it
CapturedSvgKeepsCallback ==
    /\ svg.pending # <<>>
    /\ UNCHANGED <<circuit, port, instance, connection>>
    /\ last' = "done"
    /\ nets' = NoNets
    /\ LET data == Len(svg.snapshots) + 1
       IN  svg' = [svg EXCEPT
                     !.pending = Tail(@),
                     !.snapshots = Append(@, data),
                     !.called = IF svg.callbacks # <<>>
                                THEN [by |-> Head(svg.callbacks), data |-> data]
                                ELSE [by |-> 0, data |-> 0]]

\* Circuit.msg({"type": "captured_svg", "data": ...}): the front-end answers
\* its oldest request
CapturedSvg ==
    /\ svg.pending # <<>>
    /\ UNCHANGED <<circuit, port, instance, connection>>
    /\ last' = "done"
    /\ nets' = NoNets
    /\ LET data == Len(svg.snapshots) + 1
       IN  svg' = [svg EXCEPT
                     !.pending = Tail(@),
                     !.snapshots = Append(@, data),
                     !.callbacks = IF svg.callbacks # <<>> THEN Tail(@) ELSE @,
                     !.called = IF svg.callbacks # <<>>
                                THEN [by |-> Head(svg.callbacks), data |-> data]
                                ELSE [by |-> 0, data |-> 0]]

\* file names, as the sequences of their characters
SvgName == <<"a", ".", "s", "v", "g">>
PngName == <<"a", ".", "p", "n", "g">>
PdfName == <<"a", ".", "p", "d", "f">>
JpgName == <<"a", ".", "j", "p", "g">>
GifName == <<"a", ".", "g", "i", "f">>
BareName == <<"a">>
FileNames == {SvgName, PngName, PdfName, JpgName, GifName, BareName}

\* filename[-4:] and filename.endswith(suffix)
LastFour(filename) ==
    IF Len(filename) <= 4 THEN filename
    ELSE SubSeq(filename, Len(filename) - 3, Len(filename))
EndsWith(filename, suffix) ==
    /\ Len(filename) >= Len(suffix)
    /\ SubSeq(filename, Len(filename) - Len(suffix) + 1, Len(filename)) = suffix

\* the extensions save_last_image names
DotSvg == <<".", "s", "v", "g">>
DotPng == <<".", "p", "n", "g">>
DotPdf == <<".", "p", "d", "f">>
Refused == {<<".", "j", "p", "g">>, <<".", "e", "p", "s">>,
            <<".", "b", "m", "p">>, <<".", "t", "i", "f">>}

\* circuit.save_last_image(filename); cairosvg tells whether the import of
\* cairosvg succeeds
SaveLastImage(filename, cairosvg) ==
    LET named == IF LastFour(filename) \notin {DotSvg, DotPng, DotPdf}
                 THEN filename \o DotSvg ELSE filename
    IN  /\ UNCHANGED <<circuit, port, instance, connection>>
        /\ nets' = NoNets
        /\ IF Len(svg.snapshots) = 0
           THEN last' = "ignored" /\ svg' = svg
           ELSE IF LastFour(filename) \in Refused
           THEN last' = "ValueError" /\ svg' = svg
           ELSE IF EndsWith(named, DotSvg)
           THEN last' = "done" /\ svg' = [svg EXCEPT !.files = @ \cup {named}]
           ELSE IF ~cairosvg
           THEN last' = "ignored" /\ svg' = svg
           ELSE IF EndsWith(named, DotPng) \/ EndsWith(named, DotPdf)
           THEN last' = "done" /\ svg' = [svg EXCEPT !.files = @ \cup {named}]
           ELSE last' = "ValueError" /\ svg' = svg

----------------------------------------------------------------------------
(* CircuitBuilder *)

\* the ComponentType objects and the Port objects of their lists ports
TypeIndex == [Phase |-> 1, Amp |-> 2, Tee |-> 3, Beamsplitter |-> 4, Sink |-> 5]
TypeObj(ctype) == [kind |-> "ComponentType", o |-> 0, i |-> TypeIndex[ctype]]
TemplatePort(ctype, k) == PortObj(0 - TypeObj(ctype).i, k)
TemplatePorts(ctype) == {TemplatePort(ctype, k) : k \in DOMAIN ComponentType[ctype].ports}

\* ComponentType(name=..., ports=[...]): the template ports as objects,
\* owned by the type (HasPorts._ports_changed)
WithTemplates(st, ctype) ==
    LET tports == st.ctype[ctype].ports IN
    [st EXCEPT !.port =
        [q \in DOMAIN st.port \cup TemplatePorts(ctype) |->
            IF q \in DOMAIN st.port THEN st.port[q]
            ELSE [NewPort(tports[q.i].name, tports[q.i].domain, tports[q.i].direction)
                     EXCEPT !.parent = TypeObj(ctype)]]]

\* make_instance that hands the type's own ports to the instance
MakeInstanceSharesPorts(st, i, ctype, name) ==
    LET tports == st.ctype[ctype].ports
        st1 == WithTemplates(st, ctype)
    IN  [st1 EXCEPT
           !.instance = [x \in DOMAIN st.instance \cup {i} |->
                           IF x = i
                           THEN [name |-> name, ctype |-> ctype,
                                 ports |-> [k \in DOMAIN tports |-> TemplatePort(ctype, k)]]
                           ELSE st.instance[x]],
           !.port = [q \in DOMAIN st1.port |->
                       IF q \in TemplatePorts(ctype)
                       THEN [st1.port[q] EXCEPT !.parent = i]
                       ELSE st1.port[q]]]

\* ComponentType.make_instance(name): the instance i and its cloned ports
MakeInstance(st, i, ctype, name) ==
    LET tports == st.ctype[ctype].ports
        mine == {PortObj(i.i, k) : k \in DOMAIN tports}
    IN  [st EXCEPT
           !.instance = [x \in DOMAIN st.instance \cup {i} |->
                           IF x = i
                           THEN [name |-> name, ctype |-> ctype,
                                 ports |-> [k \in DOMAIN tports |-> PortObj(i.i, k)]]
                           ELSE st.instance[x]],
           !.port = [q \in DOMAIN st.port \cup mine |->
                       IF q \in mine
                       THEN [NewPort(tports[q.i].name, tports[q.i].domain,
                                     tports[q.i].direction) EXCEPT !.parent = i]
                       ELSE st.port[q]]]

\* CircuitBuilder._rename_circuit with text in the name field
RenameCircuit(text) ==
    IF Len(text) > 0
    THEN Return([State EXCEPT !.circuit.name = text], "done")
    ELSE Ignore("ignored")

\* CircuitBuilder._add_component
AddComponent(ctype, cname) ==
    IF Len(cname) > 0 /\ cname \notin DOMAIN circuit.c
    THEN /\ FreeInstances # {}
         /\ LET i == InstanceObj(Least(FreeInstances))
                made == MakeInstance(State, i, ctype, cname)
                res == SetComponentInstances(made, Append(circuit.component_instances, i))
            IN  Return(res.st, IF res.raised THEN "ValueError" ELSE "done")
    ELSE Ignore("ignored")

\* CircuitBuilder._add_port
AddPort(pname, d, dropdown) ==
    LET direction == IF ~Domain[d].causal THEN "inout" ELSE dropdown IN
    IF Len(pname) > 0 /\ pname \notin DOMAIN circuit.p
    THEN /\ FreePorts # {}
         /\ LET newp == PortObj(0, Least(FreePorts))
                made == [State EXCEPT !.port =
                            [q \in DOMAIN port \cup {newp} |->
                               IF q = newp THEN NewPort(pname, d, direction)
                               ELSE port[q]]]
                res == SetPorts(made, Append(circuit.ports, newp))
            IN  Return(res.st, IF res.raised THEN "ValueError" ELSE "done")
    ELSE Ignore("ignored")

\* del d[key]; d[newkey] = value, on an AttrDict
Rekey(d, key, newkey, value) ==
    [n \in (DOMAIN d \ {key}) \cup {newkey} |-> IF n = newkey THEN value ELSE d[n]]

\* CircuitBuilder._rename_component
RenameComponent(newname) ==
    LET c == circuit.selected_element IN
    IF ~IsInstance(c, "ComponentInstance")
    THEN Ignore("ignored")
    ELSE IF Len(newname) > 0 /\ newname \notin DOMAIN circuit.c
    THEN IF instance[c].name \notin DOMAIN circuit.c
         THEN Ignore("KeyError")
         ELSE Return([State EXCEPT
                        !.circuit.c = Rekey(@, instance[c].name, newname, c),
                        !.instance[c].name = newname],
                     "done")
    ELSE Ignore("ignored")

\* CircuitBuilder._rename_port
RenamePort(newname) ==
    LET p == circuit.selected_element IN
    IF ~IsInstance(p, "Port")
    THEN Ignore("ignored")
    ELSE IF Len(newname) > 0 /\ newname \notin DOMAIN circuit.p
    THEN IF port[p].name \notin DOMAIN circuit.p
         THEN Ignore("KeyError")
         ELSE Return([State EXCEPT
                        !.circuit.p = Rekey(@, port[p].name, newname, p),
                        !.port[p].name = newname],
                     "done")
    ELSE Ignore("ignored")

\* for p in ports: for cc in p.connections_in + p.connections_out: cc.remove()
\* the loop over the ports that stops after the first port
RemoveConnectionsOfFirst(st, ports) ==
    IF ports = <<>> THEN st
    ELSE RemoveEach(st, st.port[Head(ports)].connections_in
                          \o st.port[Head(ports)].connections_out)

\* for p in ports: for cc in p.connections_in + p.connections_out: cc.remove()
RECURSIVE RemoveConnectionsOf(_, _)
RemoveConnectionsOf(st, ports) ==
    IF ports = <<>> THEN st
    ELSE LET p == Head(ports)
         IN  RemoveConnectionsOf(
                 RemoveEach(st, st.port[p].connections_in \o st.port[p].connections_out),
                 Tail(ports))

\* whether delete_selected_component goes past its early return
DeletesSelectedComponent ==
    /\ IsInstance(circuit.selected_element, "ComponentInstance")
    /\ In(circuit.selected_element, circuit.component_instances)

\* delete_selected_component after its first assignment: the selected
\* instance is out of circuit.component_instances
InstanceTakenOut ==
    SetComponentInstances(State,
        RemoveSelf(circuit.selected_element, circuit.component_instances))

\* delete_selected_component at its end, when nothing raised
ComponentDeleted ==
    [RemoveConnectionsOf(InstanceTakenOut.st, instance[circuit.selected_element].ports)
        EXCEPT !.circuit.selected_element = NoneObj]

\* CircuitBuilder.delete_selected_component
DeleteSelectedComponent ==
    IF ~DeletesSelectedComponent
    THEN Ignore("ignored")
    ELSE IF InstanceTakenOut.raised
         THEN Return(InstanceTakenOut.st, "ValueError")
         ELSE Return(ComponentDeleted, "done")

\* delete_selected_port without its loop over the port's connections
DeleteSelectedPortKeepsConnections ==
    LET p == circuit.selected_element IN
    IF ~IsInstance(p, "Port") \/ ~In(p, circuit.ports)
    THEN Ignore("ignored")
    ELSE LET res == SetPorts(State, RemoveSelf(p, circuit.ports))
         IN  IF res.raised
             THEN Return(res.st, "ValueError")
             ELSE Return([res.st EXCEPT !.circuit.selected_element = NoneObj],
                         "done")

\* delete_selected_port that does not ask whose port is selected
DeleteSelectedPortOfAnyone ==
    LET p == circuit.selected_element IN
    IF ~IsInstance(p, "Port")
    THEN Ignore("ignored")
    ELSE Return([RemoveConnectionsOf(SetPorts(State, RemoveSelf(p, circuit.ports)).st, <<p>>)
                    EXCEPT !.circuit.selected_element = NoneObj],
                "done")

\* CircuitBuilder.delete_selected_port
DeleteSelectedPort ==
    LET p == circuit.selected_element IN
    IF ~IsInstance(p, "Port") \/ ~In(p, circuit.ports)
    THEN Ignore("ignored")
    ELSE LET res == SetPorts(State, RemoveSelf(p, circuit.ports))
             cut == RemoveConnectionsOf(res.st, <<p>>)
         IN  IF res.raised
             THEN Return(res.st, "ValueError")
             ELSE Return([cut EXCEPT !.circuit.selected_element = NoneObj],
                         "done")

\* ps.index(p), counted from 0
Index(ps, p) == (CHOOSE k \in DOMAIN ps : ps[k] = p /\ \A j \in 1..(k - 1) : ps[j] # p) - 1

\* an insertion that always appends
InsertAtEnd(ps, n, p) == Append(ps, p)

\* ps[:n] + [p] + ps[n:], for n >= 0
InsertAt(ps, n, p) ==
    LET m == IF n > Len(ps) THEN Len(ps) ELSE n
    IN  SubSeq(ps, 1, m) \o <<p>> \o SubSeq(ps, m + 1, Len(ps))

\* ps.pop(ii)
Pop(ps, ii) == SubSeq(ps, 1, ii) \o SubSeq(ps, ii + 2, Len(ps))

\* CircuitBuilder.move_selected_port_up
MoveSelectedPortUp ==
    LET p == circuit.selected_element IN
    IF ~IsInstance(p, "Port") \/ ~In(p, circuit.ports)
    THEN Ignore("ignored")
    ELSE LET ii == Index(circuit.ports, p)
             ps == Pop(circuit.ports, ii)
             jj == IF ii > 1 THEN ii ELSE 1
             res == SetPorts(State, InsertAt(ps, jj - 1, p))
         IN  Return(res.st, IF res.raised THEN "ValueError" ELSE "done")

\* CircuitBuilder.move_selected_port_down
MoveSelectedPortDown ==
    LET p == circuit.selected_element IN
    IF ~IsInstance(p, "Port") \/ ~In(p, circuit.ports)
    THEN Ignore("ignored")
    ELSE LET ii == Index(circuit.ports, p)
             ps == Pop(circuit.ports, ii)
             res == SetPorts(State, InsertAt(ps, ii + 1, p))
         IN  Return(res.st, IF res.raised THEN "ValueError" ELSE "done")

\* circuit.ports = circuit.ports + [Port(name=n, domain=d, direction=dir)]
ConstructPort(n, d, dir, domain_first) ==
    LET made == ConstructedPort(n, d, dir, domain_first) IN
    IF made.raised THEN Ignore("ValueError")
    ELSE /\ FreePorts # {}
         /\ LET newp == PortObj(0, Least(FreePorts))
                st1 == [State EXCEPT !.port =
                           [q \in DOMAIN port \cup {newp} |->
                               IF q = newp THEN made.port ELSE port[q]]]
                res == SetPorts(st1, Append(circuit.ports, newp))
            IN  Return(res.st, IF res.raised THEN "ValueError" ELSE "done")

\* q.domain = d
AssignDomain(q, d) ==
    LET res == SetDomain(port[q], d)
    IN  Return([State EXCEPT !.port[q] = res.port],
               IF res.raised THEN "ValueError" ELSE "done")

\* q.direction = dir
AssignDirection(q, dir) ==
    LET res == SetDirection(port[q], dir)
    IN  Return([State EXCEPT !.port[q] = res.port],
               IF res.raised THEN "ValueError" ELSE "done")

----------------------------------------------------------------------------
(* Construction *)

\* Circuit(name=name): no ports, no instances, no connections
EmptyCircuit(name) ==
    [circuit |-> [name |-> name, ports |-> <<>>, p |-> <<>>,
                  component_instances |-> <<>>, c |-> <<>>,
                  connections |-> <<>>, selected_element |-> NoneObj],
     port |-> <<>>, instance |-> <<>>, connection |-> <<>>,
     domain |-> Domain, ctype |-> ComponentType]

\* the Port objects PortObj(0, 1..) made from a list of port descriptions
WithPorts(st, infos) ==
    [st EXCEPT !.port =
        [q \in DOMAIN st.port \cup {PortObj(0, k) : k \in DOMAIN infos} |->
            IF q \in DOMAIN st.port THEN st.port[q]
            ELSE NewPort(infos[q.i].name, infos[q.i].domain, infos[q.i].direction)]]

\* Circuit(name="MZ", ports=[In1, Control, Out1], component_instances=[phi])
\* with phi = Phase.make_instance("phi"): external field ports of both
\* directions and an external control port, as in the test's circuit
ConstructedField ==
    LET st0 == EmptyCircuit("MZ")
        st1 == MakeInstance(st0, InstanceObj(1), "Phase", "phi")
        st2 == WithPorts(st1, <<PortInfo("In1", "fieldmode", "in"),
                                PortInfo("Control", "electrical", "inout"),
                                PortInfo("Out1", "fieldmode", "out")>>)
        st3 == SetPorts(st2, <<PortObj(0, 1), PortObj(0, 2), PortObj(0, 3)>>).st
    IN  SetComponentInstances(st3, <<InstanceObj(1)>>).st

\* Circuit(name="Loop", ports=[In1, Out1], component_instances=[amp]) with
\* amp = Amp.make_instance("amp"), all ports of the domain signal
ConstructedSignal ==
    LET st0 == EmptyCircuit("Loop")
        st1 == MakeInstance(st0, InstanceObj(1), "Amp", "amp")
        st2 == WithPorts(st1, <<PortInfo("In1", "signal", "in"),
                                PortInfo("Out1", "signal", "out")>>)
        st3 == SetPorts(st2, <<PortObj(0, 1), PortObj(0, 2)>>).st
    IN  SetComponentInstances(st3, <<InstanceObj(1)>>).st

\* Circuit(name="Bus", ports=[A, In1, B], component_instances=[tee]) with
\* tee = Tee.make_instance("tee"): four electrical ports around a field port
ConstructedBus ==
    LET st0 == EmptyCircuit("Bus")
        st1 == MakeInstance(st0, InstanceObj(1), "Tee", "tee")
        st2 == WithPorts(st1, <<PortInfo("A", "electrical", "inout"),
                                PortInfo("In1", "fieldmode", "in"),
                                PortInfo("B", "electrical", "inout")>>)
        st3 == SetPorts(st2, <<PortObj(0, 1), PortObj(0, 2), PortObj(0, 3)>>).st
    IN  SetComponentInstances(st3, <<InstanceObj(1)>>).st

\* Circuit(name="Loop", component_instances=[amp]) with
\* amp = Amp.make_instance("amp") and no external port
ConstructedBare ==
    SetComponentInstances(MakeInstance(EmptyCircuit("Loop"), InstanceObj(1), "Amp", "amp"),
                          <<InstanceObj(1)>>).st

\* Circuit(name="MZ", ports=[In1], component_instances=[phi]) with
\* phi = Phase.make_instance("phi"); the external port is the object
\* PortObj(0, 0), made before the builder makes any
ConstructedNamed ==
    LET st0 == EmptyCircuit("MZ")
        st1 == MakeInstance(st0, InstanceObj(1), "Phase", "phi")
        st2 == [st1 EXCEPT !.port =
                   [q \in DOMAIN st1.port \cup {PortObj(0, 0)} |->
                       IF q = PortObj(0, 0) THEN NewPort("In1", "fieldmode", "in")
                       ELSE st1.port[q]]]
        st3 == SetPorts(st2, <<PortObj(0, 0)>>).st
    IN  SetComponentInstances(st3, <<InstanceObj(1)>>).st

\* Circuit(name="MZ", ports=[In1, Out1], component_instances=[sink]) with
\* sink = Sink.make_instance("sink"); the external ports are the objects
\* PortObj(0, 0) and PortObj(0, MaxPorts + 1), made before the builder
\* makes any, and no two of the three ports share a domain
ConstructedPair ==
    LET in1 == PortObj(0, 0)
        out1 == PortObj(0, MaxPorts + 1)
        st0 == EmptyCircuit("MZ")
        st1 == MakeInstance(st0, InstanceObj(1), "Sink", "sink")
        st2 == [st1 EXCEPT !.port =
                   [q \in DOMAIN st1.port \cup {in1, out1} |->
                       IF q = in1 THEN NewPort("In1", "signal", "in")
                       ELSE IF q = out1 THEN NewPort("Out1", "electrical", "inout")
                       ELSE st1.port[q]]]
        st3 == SetPorts(st2, <<in1, out1>>).st
    IN  SetComponentInstances(st3, <<InstanceObj(1)>>).st

\* Circuit(name="MZ", component_instances=[phi]) with
\* phi = Phase.make_instance("phi"), the instance InstanceObj(MaxInstances + 1)
\* made before the builder makes any; the template ports of Phase are objects
ConstructedTwin ==
    LET phi == InstanceObj(MaxInstances + 1)
        st0 == WithTemplates(EmptyCircuit("MZ"), "Phase")
        st1 == MakeInstance(st0, phi, "Phase", "phi")
    IN  SetComponentInstances(st1, <<phi>>).st

----------------------------------------------------------------------------
(* Circuit.get_nets *)

\* HasPorts.ports_for_domain(d) on a list of ports
PortsForDomain(st, ports, d) ==
    SelectSeq(ports, LAMBDA q : st.port[q].domain = d)

\* sum((c.ports_for_domain(d) for c in is), [])
RECURSIVE InstancePortsForDomain(_, _, _)
InstancePortsForDomain(st, is, d) ==
    IF is = <<>> THEN <<>>
    ELSE PortsForDomain(st, st.instance[Head(is)].ports, d)
            \o InstancePortsForDomain(st, Tail(is), d)

\* all_ports with the ports of the instances before those of the circuit
AllPortsInstancesFirst(st, d) ==
    InstancePortsForDomain(st, st.circuit.component_instances, d)
       \o PortsForDomain(st, st.circuit.ports, d)

\* all_ports
AllPorts(st, d) ==
    PortsForDomain(st, st.circuit.ports, d)
       \o InstancePortsForDomain(st, st.circuit.component_instances, d)

\* {p: kk for kk, p in enumerate(all)}: a later place wins a repeated port
NetsIndex(all) ==
    [q \in Range(all) |->
        (CHOOSE k \in DOMAIN all : all[k] = q /\ \A j \in DOMAIN all : all[j] = q => j <= k) - 1]

\* the loop over self.connections cut short after its first connection
ResolveFirstOnly(st, d, cs, acc) ==
    IF cs = <<>> THEN acc
    ELSE
        LET s == st.connection[Head(cs)].source
            t == st.connection[Head(cs)].target
        IN  IF st.port[s].domain # d \/ st.port[t].domain # d THEN acc
            ELSE [acc EXCEPT !.nets_by_nk =
                     [kk \in {IF acc.nets[s].k < acc.nets[t].k
                              THEN acc.nets[s].k ELSE acc.nets[t].k} |-> {s, t}]]

\* the loop over self.connections: acc holds nets, nets_by_nk and whether
\* a lookup has raised KeyError
RECURSIVE ResolveConnections(_, _, _, _)
ResolveConnections(st, d, cs, acc) ==
    IF cs = <<>> \/ acc.raised THEN acc
    ELSE
        LET s == st.connection[Head(cs)].source
            t == st.connection[Head(cs)].target
        IN  IF st.port[s].domain # d \/ st.port[t].domain # d
            THEN ResolveConnections(st, d, Tail(cs), acc)
            ELSE IF s \notin DOMAIN acc.nets \/ t \notin DOMAIN acc.nets
            THEN [acc EXCEPT !.raised = TRUE]
            ELSE
                LET ns == acc.nets[s].k
                    nt == acc.nets[t].k
                    mn == IF ns < nt THEN ns ELSE nt
                    ma == IF ns < nt THEN nt ELSE ns
                    clique == acc.nets[s].ps \cup acc.nets[t].ps
                    nets1 == [q \in DOMAIN acc.nets |->
                                IF q \in clique THEN [k |-> mn, ps |-> clique]
                                ELSE acc.nets[q]]
                    by1 == [kk \in DOMAIN acc.nets_by_nk \cup {mn} |->
                              IF kk = mn THEN clique ELSE acc.nets_by_nk[kk]]
                    by2 == IF ns # nt /\ ma \in DOMAIN by1
                           THEN [kk \in DOMAIN by1 \ {ma} |-> by1[kk]]
                           ELSE by1
                IN  ResolveConnections(st, d, Tail(cs),
                        [acc EXCEPT !.nets = nets1, !.nets_by_nk = by2])

\* sorted(S, key=index.get, reverse=True)
RECURSIVE SortedDescending(_, _)
SortedDescending(S, index) ==
    IF S = {} THEN <<>>
    ELSE LET m == CHOOSE x \in S : \A y \in S : index[x] >= index[y]
         IN  <<m>> \o SortedDescending(S \ {m}, index)

\* sorted(S, key=index.get)
RECURSIVE SortedBy(_, _)
SortedBy(S, index) ==
    IF S = {} THEN <<>>
    ELSE LET m == CHOOSE x \in S : \A y \in S : index[x] <= index[y]
         IN  <<m>> \o SortedBy(S \ {m}, index)

\* get_nets that reports one net per connection and merges nothing
GetNetsUnmerged(st, d) ==
    LET cs == SelectSeq(st.circuit.connections,
                        LAMBDA c : /\ st.port[st.connection[c].source].domain = d
                                   /\ st.port[st.connection[c].target].domain = d)
    IN  [raised |-> FALSE,
         value |-> [j \in DOMAIN cs |->
                      SortedBy({st.connection[cs[j]].source, st.connection[cs[j]].target},
                               NetsIndex(AllPorts(st, d)))]]

\* circuit.get_nets(d) in state st: the list returned, or raised
GetNetsOf(st, d) ==
    LET all == AllPorts(st, d)
        index == NetsIndex(all)
        start == [nets |-> [q \in Range(all) |-> [k |-> index[q], ps |-> {q}]],
                  nets_by_nk |-> <<>>,
                  raised |-> FALSE]
        end == ResolveConnections(st, d, st.circuit.connections, start)
        keys == SortedBy(DOMAIN end.nets_by_nk, [kk \in DOMAIN end.nets_by_nk |-> kk])
    IN  [raised |-> end.raised,
         value |-> IF end.raised THEN <<>>
                   ELSE [j \in DOMAIN keys |-> SortedBy(end.nets_by_nk[keys[j]], index)]]

\* circuit.get_nets(d)
GetNets(d) ==
    /\ UNCHANGED <<circuit, port, instance, connection, svg>>
    /\ IF GetNetsOf(State, d).raised
       THEN last' = "KeyError" /\ nets' = NoNets
       ELSE last' = "nets" /\ nets' = [domain |-> d, value |-> GetNetsOf(State, d).value]

----------------------------------------------------------------------------
(* Circuit.to_jsonifiable and Circuit.from_jsonifiable *)

\* c.source._parent.name: the name of the circuit or of the instance
ParentName(st, q) ==
    IF IsInstance(st.port[q].parent, "Circuit") THEN st.circuit.name
    ELSE st.instance[st.port[q].parent].name

\* _port_info(p)
PortInfoOf(st, q) ==
    PortInfo(st.port[q].name, st.port[q].domain, st.port[q].direction)

\* Circuit.to_jsonifiable: dicts are functions, lists and tuples sequences
ToJsonifiable(st) ==
    LET insts == st.circuit.component_instances
        domains == {st.port[q].domain :
                      q \in Range(st.circuit.ports) \cup PortsOfInstances(st, Range(insts))}
        ctypes == {st.instance[i].ctype : i \in Range(insts)}
    IN  [name |-> st.circuit.name,
         domains |-> [d \in domains |->
                        [causal |-> st.domain[d].causal, one2one |-> st.domain[d].one2one]],
         ports |-> [k \in DOMAIN st.circuit.ports |-> PortInfoOf(st, st.circuit.ports[k])],
         component_types |-> [ct \in ctypes |-> [ports |-> st.ctype[ct].ports]],
         component_instances |->
            [n \in DOMAIN AttrDictOf(insts, st.instance) |->
                st.instance[AttrDictOf(insts, st.instance)[n]].ctype],
         connections |->
            [k \in DOMAIN st.circuit.connections |->
                LET c == st.connection[st.circuit.connections[k]]
                IN  <<ParentName(st, c.source), st.port[c.source].name,
                      ParentName(st, c.target), st.port[c.target].name>>]]

\* the elements of a set in the order a dict happens to list them
RECURSIVE Values(_)
Values(S) ==
    IF S = {} THEN <<>>
    ELSE LET x == CHOOSE x \in S : TRUE IN <<x>> \o Values(S \ {x})

Loaded(st) == [ok |-> TRUE, error |-> "", st |-> st]
Failed(error) == [ok |-> FALSE, error |-> error, st |-> EmptyCircuit("")]

\* the instances of from_jsonifiable, made one after the other
RECURSIVE MakeInstances(_, _, _)
MakeInstances(st, names, obj) ==
    IF names = <<>> THEN st
    ELSE LET k == Cardinality(DOMAIN st.instance) + 1
         IN  MakeInstances(
                 MakeInstance(st, InstanceObj(k), obj.component_instances[Head(names)],
                              Head(names)),
                 Tail(names), obj)

\* _resolve_port that answers an unknown name with the circuit's first port
ResolvePortOrFirst(st, name, ports_dict, by_name, cn, pn) ==
    LET first == IF st.circuit.ports = <<>> THEN NoneObj ELSE st.circuit.ports[1] IN
    IF cn = name
    THEN IF pn \in DOMAIN ports_dict THEN ports_dict[pn] ELSE first
    ELSE IF cn \notin DOMAIN by_name THEN first
    ELSE LET p == AttrDictOf(st.instance[by_name[cn]].ports, st.port)
         IN  IF pn \in DOMAIN p THEN p[pn] ELSE first

\* _resolve_port(cn, pn) of from_jsonifiable: the port, or NoneObj for a
\* KeyError
ResolvePort(st, name, ports_dict, by_name, cn, pn) ==
    IF cn = name
    THEN IF pn \in DOMAIN ports_dict THEN ports_dict[pn] ELSE NoneObj
    ELSE IF cn \notin DOMAIN by_name THEN NoneObj
    ELSE LET p == AttrDictOf(st.instance[by_name[cn]].ports, st.port)
         IN  IF pn \in DOMAIN p THEN p[pn] ELSE NoneObj

\* ret.connections = [Connection(source=..., target=...) for ... in tuples]
RECURSIVE MakeConnections(_, _)
MakeConnections(st, pairs) ==
    IF pairs = <<>> THEN st
    ELSE LET c == ConnectionObj(Len(st.circuit.connections) + 1)
             made == NewConnection(st, c, Head(pairs)[1], Head(pairs)[2])
         IN  MakeConnections([made EXCEPT !.circuit.connections = Append(@, c)],
                             Tail(pairs))

\* Circuit.from_jsonifiable(obj): the circuit built, or the error raised
FromJsonifiable(obj) ==
    LET name == obj.name
        infos == obj.ports
        tinfos == UNION {Range(obj.component_types[ct].ports) : ct \in DOMAIN obj.component_types}
        inames == Values(DOMAIN obj.component_instances)
        st0 == [EmptyCircuit(name) EXCEPT
                  !.domain = [d \in DOMAIN obj.domains |->
                                [name |-> d, causal |-> obj.domains[d].causal,
                                 one2one |-> obj.domains[d].one2one]],
                  !.ctype = [ct \in DOMAIN obj.component_types |->
                                [name |-> ct, ports |-> obj.component_types[ct].ports]]]
        st1 == WithPorts(st0, infos)
        ports == [k \in DOMAIN infos |-> PortObj(0, k)]
        ports_dict == AttrDictOf(ports, st1.port)
        st2 == MakeInstances(st1, inames, obj)
        by_name == [n \in DOMAIN obj.component_instances |->
                      InstanceObj(CHOOSE k \in DOMAIN inames : inames[k] = n)]
        res3 == SetPorts(st2, ports)
        st4 == SetComponentInstances(res3.st,
                   [k \in DOMAIN inames |-> InstanceObj(k)]).st
        pairs == [k \in DOMAIN obj.connections |->
                    <<ResolvePort(st4, name, ports_dict, by_name,
                                  obj.connections[k][1], obj.connections[k][2]),
                      ResolvePort(st4, name, ports_dict, by_name,
                                  obj.connections[k][3], obj.connections[k][4])>>]
    IN  IF Len(name) = 0 THEN Failed("ValueError")
        ELSE IF \E k \in DOMAIN infos : infos[k].domain \notin DOMAIN obj.domains
        THEN Failed("KeyError")
        ELSE IF \E t \in tinfos : t.domain \notin DOMAIN obj.domains
        THEN Failed("KeyError")
        ELSE IF \E ct \in DOMAIN obj.component_types :
                    LET tp == obj.component_types[ct].ports
                    IN  Cardinality({tp[k].name : k \in DOMAIN tp}) # Len(tp)
        THEN Failed("ValueError")
        ELSE IF \E n \in DOMAIN obj.component_instances :
                    obj.component_instances[n] \notin DOMAIN obj.component_types
        THEN Failed("KeyError")
        ELSE IF res3.raised THEN Failed("ValueError")
        ELSE IF \E k \in DOMAIN pairs : NoneObj \in {pairs[k][1], pairs[k][2]}
        THEN Failed("KeyError")
        ELSE Loaded(MakeConnections(st4, pairs))

----------------------------------------------------------------------------
(* The connection interface: a constructed circuit and the calls           *)
(* circuit.connect(p1, p2) and Circuit.delete_connection(c).               *)

Init ==
    /\ \E built \in {ConstructedField, ConstructedSignal} :
          /\ circuit = built.circuit
          /\ port = built.port
          /\ instance = built.instance
          /\ connection = built.connection
    /\ last = "done"
    /\ nets = NoNets
    /\ svg = NoSvg

Next ==
    \/ \E p1, p2 \in ShownPorts : Connect(p1, p2)
    \/ \E c \in ShownConnections : DeleteConnection(c)

Spec == Init /\ [][Next]_vars

----------------------------------------------------------------------------
(* The circuit widget in the editor: the calls of the connection interface *)
(* together with the messages of the front-end and the builder's deletions *)

InitEditor ==
    /\ circuit = ConstructedSignal.circuit
    /\ port = ConstructedSignal.port
    /\ instance = ConstructedSignal.instance
    /\ connection = ConstructedSignal.connection
    /\ last = "done"
    /\ nets = NoNets
    /\ svg = NoSvg

NextEditor ==
    \/ \E p1, p2 \in ShownPorts : Connect(p1, p2)
    \/ \E c \in ShownConnections : DeleteConnection(c)
    \/ \E p \in ShownPorts : PortMsg(p)
    \/ \E c \in ShownInstances : ComponentMsg(c)
    \/ \E c \in ShownConnections : ConnectionMsg(c)
    \/ Msg
    \/ DeleteSelectedComponent
    \/ DeleteSelectedPort

SpecEditor == InitEditor /\ [][NextEditor]_vars

----------------------------------------------------------------------------
(* The editor: CircuitBuilder(domains, components, "MZ") on an empty       *)
(* circuit and every event that can reach it afterwards.                   *)

\* the builder's domains and components
BuilderDomains == {"fieldmode", "electrical"}
BuilderComponents == {"Phase"}

InitBuilder ==
    /\ circuit = EmptyCircuit("MZ").circuit
    /\ port = <<>>
    /\ instance = <<>>
    /\ connection = <<>>
    /\ last = "done"
    /\ nets = NoNets
    /\ svg = NoSvg

NextBuilder ==
    \/ \E p \in ShownPorts : PortMsg(p)
    \/ \E c \in ShownInstances : ComponentMsg(c)
    \/ \E c \in ShownConnections : ConnectionMsg(c)
    \/ Msg
    \/ \E text \in CircuitNameTexts : RenameCircuit(text)
    \/ \E ctype \in BuilderComponents, text \in ComponentNameTexts :
          AddComponent(ctype, text)
    \/ \E text \in PortNameTexts, d \in BuilderDomains, dir \in DirectionValues :
          AddPort(text, d, dir)
    \/ \E text \in ComponentNameTexts : RenameComponent(text)
    \/ \E text \in PortNameTexts : RenamePort(text)
    \/ DeleteSelectedComponent
    \/ DeleteSelectedPort
    \/ MoveSelectedPortUp
    \/ MoveSelectedPortDown

SpecBuilder == InitBuilder /\ [][NextBuilder]_vars

----------------------------------------------------------------------------
(* The nets of a circuit: connections are made and deleted through the     *)
(* connection interface and get_nets is asked for each domain.             *)

InitNets ==
    /\ \E built \in {ConstructedBus, ConstructedSignal} :
          /\ circuit = built.circuit
          /\ port = built.port
          /\ instance = built.instance
          /\ connection = built.connection
    /\ last = "done"
    /\ nets = NoNets
    /\ svg = NoSvg

NextNets ==
    \/ \E p1, p2 \in ShownPorts : Connect(p1, p2)
    \/ \E c \in ShownConnections : DeleteConnection(c)
    \/ \E d \in DomainNames : GetNets(d)

SpecNets == InitNets /\ [][NextNets]_vars

----------------------------------------------------------------------------
(* The traits of a port: ports are constructed with every domain and       *)
(* direction and in both keyword orders, and the domain and the direction  *)
(* of the ports shown are assigned afterwards.                             *)

\* names of the ports constructed
ConstructedNames == {"In1", "X"}

InitPort ==
    /\ circuit = ConstructedBare.circuit
    /\ port = ConstructedBare.port
    /\ instance = ConstructedBare.instance
    /\ connection = ConstructedBare.connection
    /\ last = "done"
    /\ nets = NoNets
    /\ svg = NoSvg

NextPort ==
    \/ \E n \in ConstructedNames, d \in DomainNames, dir \in DirectionEnum,
          domain_first \in BOOLEAN : ConstructPort(n, d, dir, domain_first)
    \/ \E q \in ShownPorts, d \in DomainNames : AssignDomain(q, d)
    \/ \E q \in ShownPorts, dir \in DirectionEnum : AssignDirection(q, dir)

SpecPort == InitPort /\ [][NextPort]_vars

----------------------------------------------------------------------------
(* The port dialogs of the builder on a circuit that has an external port  *)
(* and an instance: ports are clicked, added, renamed, deleted and moved.  *)

InitNames ==
    /\ circuit = ConstructedNamed.circuit
    /\ port = ConstructedNamed.port
    /\ instance = ConstructedNamed.instance
    /\ connection = ConstructedNamed.connection
    /\ last = "done"
    /\ nets = NoNets
    /\ svg = NoSvg

NextNames ==
    \/ \E p \in ShownPorts : PortMsg(p)
    \/ \E text \in PortNameTexts, d \in BuilderDomains, dir \in DirectionValues :
          AddPort(text, d, dir)
    \/ \E text \in PortNameTexts : RenamePort(text)
    \/ DeleteSelectedPort
    \/ MoveSelectedPortUp
    \/ MoveSelectedPortDown

SpecNames == InitNames /\ [][NextNames]_vars

----------------------------------------------------------------------------
(* Clicks: the messages of the front-end and the builder's two delete     *)
(* buttons on the circuit of the test's kind, with ports of a one2one and  *)
(* of a non-causal domain.                                                 *)

InitClicks ==
    /\ circuit = ConstructedField.circuit
    /\ port = ConstructedField.port
    /\ instance = ConstructedField.instance
    /\ connection = ConstructedField.connection
    /\ last = "done"
    /\ nets = NoNets
    /\ svg = NoSvg

NextClicks ==
    \/ \E p \in ShownPorts : PortMsg(p)
    \/ \E c \in ShownInstances : ComponentMsg(c)
    \/ \E c \in ShownConnections : ConnectionMsg(c)
    \/ Msg
    \/ DeleteSelectedComponent
    \/ DeleteSelectedPort

SpecClicks == InitClicks /\ [][NextClicks]_vars

----------------------------------------------------------------------------
(* Snapshots: clicks on the elements and on the canvas, snapshot requests  *)
(* of the program and the front-end's answers to them.                     *)

InitSnapshot ==
    /\ circuit = ConstructedBare.circuit
    /\ port = ConstructedBare.port
    /\ instance = ConstructedBare.instance
    /\ connection = ConstructedBare.connection
    /\ last = "done"
    /\ nets = NoNets
    /\ svg = NoSvg

NextSnapshot ==
    \/ \E p \in ShownPorts : PortMsg(p)
    \/ \E c \in ShownInstances : ComponentMsg(c)
    \/ \E c \in ShownConnections : ConnectionMsg(c)
    \/ Msg
    \/ \E with_callback \in BOOLEAN : CaptureSvg(with_callback)
    \/ CapturedSvg

SpecSnapshot == InitSnapshot /\ [][NextSnapshot]_vars

----------------------------------------------------------------------------
(* Claims *)

\* C1: exporting the circuit and loading the export gives a circuit with
\* the same name, the same external port names and the same instance
\* names, whose export equals the first export.
RoundTrip ==
    LET obj == ToJsonifiable(State)
        loaded == FromJsonifiable(obj)
    IN  /\ loaded.ok
        /\ loaded.st.circuit.name = circuit.name
        /\ DOMAIN loaded.st.circuit.p = DOMAIN circuit.p
        /\ DOMAIN loaded.st.circuit.c = DOMAIN circuit.c
        /\ ToJsonifiable(loaded.st) = obj

\* the number of places of the list ll that hold x
Count(x, ll) == Cardinality({k \in DOMAIN ll : ll[k] = x})

\* the places of circuit.connections, and the connection stored at one
Places == DOMAIN circuit.connections
At(k) == connection[circuit.connections[k]]

\* C2: every connection of circuit.connections is once in its source's
\* connections_out and once in its target's connections_in and in no other
\* adjacency list, and every adjacency list holds connections of
\* circuit.connections only.
AdjacencyConsistent ==
    /\ \A c \in Range(circuit.connections) :
          /\ Count(c, port[connection[c].source].connections_out) = 1
          /\ Count(c, port[connection[c].target].connections_in) = 1
          /\ \A q \in DOMAIN port :
                /\ q # connection[c].source => ~In(c, port[q].connections_out)
                /\ q # connection[c].target => ~In(c, port[q].connections_in)
    /\ \A q \in DOMAIN port :
          Range(port[q].connections_in) \cup Range(port[q].connections_out)
             \subseteq Range(circuit.connections)

\* C2's case: the instance has been deleted with its connections, and two
\* connections made since run between the two external ports
AdjacencyWitness ==
    /\ circuit.component_instances = <<>>
    /\ Len(circuit.connections) = 2
    /\ \A k \in Places : IsExt(At(k).source) /\ IsExt(At(k).target)

\* the connections a port takes part in
Degree(q) == Len(port[q].connections_in) + Len(port[q].connections_out)

\* C3: a port of a causal one2one domain takes part in at most one
\* connection.
OneToOne ==
    \A q \in DOMAIN port :
        Domain[port[q].domain].causal /\ Domain[port[q].domain].one2one
            => Degree(q) <= 1

\* C4: no two connections of a non-causal domain join the same two ports,
\* in either direction.
NoDuplicateUndirected ==
    \A j, k \in Places :
        j # k /\ ~Domain[port[At(j).source].domain].causal
            => {At(j).source, At(j).target} # {At(k).source, At(k).target}

\* C5: no two connections of a causal domain have the same source and the
\* same target.
NoDuplicateDirected ==
    \A j, k \in Places :
        j # k /\ Domain[port[At(j).source].domain].causal
            => ~(At(j).source = At(k).source /\ At(j).target = At(k).target)

\* C6: in a causal domain valid_connection accepts a pair only when exactly
\* one of the two ports is a valid source and the other is a valid target.
AcceptsOnlySourceToTarget ==
    \A p1, p2 \in ShownPorts :
        Domain[port[p1].domain].causal /\ ValidConnection(p1, p2).ok
            => \/ IsSource(p1) /\ ~IsSource(p2) /\ IsTarget(p2)
               \/ IsSource(p2) /\ ~IsSource(p1) /\ IsTarget(p1)

\* C7: an external `in` port is a source and no target, an external `out`
\* port is a target and no source, and between an external and an internal
\* port valid_connection accepts only external-in -> internal-in and
\* internal-out -> external-out.
ExternalRolesInverted ==
    \A e, q \in ShownPorts :
        IsExt(e) /\ Domain[port[e].domain].causal
            => /\ port[e].direction = "in" => IsSource(e) /\ ~IsTarget(e)
               /\ port[e].direction = "out" => IsTarget(e) /\ ~IsSource(e)
               /\ ~IsExt(q) /\ ValidConnection(e, q).ok
                    => \/ /\ port[e].direction = "in" /\ port[q].direction = "in"
                          /\ ValidConnection(e, q) = Accepted(e, q)
                       \/ /\ port[e].direction = "out" /\ port[q].direction = "out"
                          /\ ValidConnection(e, q) = Accepted(q, e)

\* C8: in a causal one2one domain valid_connection accepts no pair whose
\* source, as returned, already has a connection, in or out.
OneToOneSourceIsFree ==
    \A p1, p2 \in ShownPorts :
        /\ Domain[port[p1].domain].causal
        /\ Domain[port[p1].domain].one2one
        /\ ValidConnection(p1, p2).ok
        => Degree(ValidConnection(p1, p2).source) = 0

\* the Connection object the next construction makes
NextConnection == ConnectionObj(Least(FreeConnections))

\* C9: an accepted connect(p1, p2) in a causal domain appends exactly one
\* connection, whose source and target are the pair valid_connection(p1, p2)
\* returned.
ConnectStoresReturnedPair ==
    [][\A p1, p2 \in ShownPorts :
          /\ Domain[port[p1].domain].causal
          /\ ValidConnection(p1, p2).ok
          /\ Connect(p1, p2)
          => /\ circuit'.connections = Append(circuit.connections, NextConnection)
             /\ connection'[NextConnection].source = ValidConnection(p1, p2).source
             /\ connection'[NextConnection].target = ValidConnection(p1, p2).target]_vars

\* C10: a connect(p1, p2) that valid_connection rejects raises nothing and
\* leaves the connections, the adjacency lists and the selection alone.
RejectedConnectIsNoOp ==
    [][\A p1, p2 \in ShownPorts :
          ~ValidConnection(p1, p2).ok /\ Connect(p1, p2)
          => /\ circuit' = circuit
             /\ port' = port
             /\ connection' = connection
             /\ last' = "rejected"]_vars

\* C10's case: a connect has just been rejected in a circuit that has a
\* connection and a selection
RejectedConnectWitness ==
    /\ last = "rejected"
    /\ circuit.connections # <<>>
    /\ circuit.selected_element # NoneObj

\* a list without every occurrence of x, the others in their order
Without(ll, x) == SelectSeq(ll, LAMBDA y : y # x)

\* C11: removing a connection c takes c out of circuit.connections, of its
\* source's connections_out and of its target's connections_in, c is then in
\* no collection, and every list keeps its other connections in their order.
RemoveTakesOutOnlyItself ==
    [][\A c \in ShownConnections :
          DeleteConnection(c)
          => /\ circuit'.connections = Without(circuit.connections, c)
             /\ \A q \in DOMAIN port :
                   /\ q \in DOMAIN port'
                   /\ port'[q].connections_in = Without(port[q].connections_in, c)
                   /\ port'[q].connections_out = Without(port[q].connections_out, c)
             /\ c \notin DOMAIN connection'
             /\ \A x \in DOMAIN connection \ {c} : connection'[x] = connection[x]]_vars

\* C11's case: the first connection made has been removed while a later one,
\* made before the removal, is still there
RemoveWitness ==
    /\ ConnectionObj(1) \notin DOMAIN connection
    /\ ConnectionObj(2) \in Range(circuit.connections)

\* the ports get_nets enumerates for the domain of its last call
NetPorts == Range(AllPorts(State, nets.domain))

\* the returned nets that hold the port q
NetsOf(q) == {j \in DOMAIN nets.value : In(q, nets.value[j])}

\* C12: get_nets returns every port of the domain in exactly one net, a
\* port without connections as a net of its own.
EveryPortInOneNet ==
    last = "nets" => \A q \in NetPorts : Cardinality(NetsOf(q)) = 1

\* the ports one connection of the domain d away from the ports ps
Neighbours(d, ps) ==
    {q \in DOMAIN port :
        \E k \in Places :
            /\ port[At(k).source].domain = d
            /\ port[At(k).target].domain = d
            /\ \/ At(k).source \in ps /\ At(k).target = q
               \/ At(k).target \in ps /\ At(k).source = q}

\* the ports joined to the ports ps by a path of connections of the domain d
RECURSIVE Joined(_, _)
Joined(d, ps) ==
    IF Neighbours(d, ps) \subseteq ps THEN ps
    ELSE Joined(d, ps \cup Neighbours(d, ps))

\* C13: for a non-causal domain, two distinct ports of the domain are in the
\* same returned net exactly when a path of connections of the domain joins
\* them, and no port is in two returned nets.
NetsAreComponents ==
    last = "nets" /\ ~Domain[nets.domain].causal
        => /\ \A p, q \in NetPorts :
                 p # q => ((NetsOf(p) \cap NetsOf(q) # {}) <=> q \in Joined(nets.domain, {p}))
           /\ \A q \in NetPorts : Cardinality(NetsOf(q)) <= 1

\* C13's case: get_nets has returned a net of three electrical ports, joined
\* by two connections in a chain
ComponentsWitness ==
    /\ last = "nets"
    /\ nets.domain = "electrical"
    /\ \E j \in DOMAIN nets.value : Len(nets.value[j]) = 3

\* the enumeration index of a port: circuit ports first, then the ports of
\* each instance in instance order
Enumeration(q) == Index(AllPorts(State, nets.domain), q)

\* the smallest enumeration index in the j-th returned net
Key(j) ==
    CHOOSE n \in {Enumeration(q) : q \in Range(nets.value[j])} :
        \A q \in Range(nets.value[j]) : n <= Enumeration(q)

\* C14: each returned net is sorted by enumeration index, and the nets come
\* in ascending order of the smallest index among their members.
NetsAreOrdered ==
    last = "nets"
        => /\ \A j \in DOMAIN nets.value :
                 \A a, b \in DOMAIN nets.value[j] :
                     a < b => Enumeration(nets.value[j][a]) < Enumeration(nets.value[j][b])
           /\ \A i, j \in DOMAIN nets.value : i < j => Key(i) < Key(j)

\* C14's case: two nets are returned and the connection listed first in
\* circuit.connections belongs to the second of them
OrderedWitness ==
    /\ last = "nets"
    /\ Len(nets.value) = 2
    /\ Len(circuit.connections) = 2
    /\ In(At(1).source, nets.value[2])

\* circuit.connections in every order
Reorderings ==
    LET n == Len(circuit.connections)
    IN  {[k \in 1..n |-> circuit.connections[f[k]]] :
            f \in {g \in [1..n -> 1..n] : \A a, b \in 1..n : a # b => g[a] # g[b]}}

\* C15: get_nets returns the same list of nets for every order of
\* circuit.connections.
NetsIgnoreConnectionOrder ==
    last = "nets"
        => \A cs \in Reorderings :
              GetNetsOf([State EXCEPT !.circuit.connections = cs], nets.domain).value
                 = nets.value

\* C15's case: get_nets has returned one net made of two connections that
\* join different pairs of ports
ConnectionOrderWitness ==
    /\ last = "nets"
    /\ Len(circuit.connections) = 2
    /\ {At(1).source, At(1).target} # {At(2).source, At(2).target}
    /\ Len(nets.value) = 1

\* the ports of the selected instance, and the connections that touch them
SelectedPorts == Range(instance[circuit.selected_element].ports)
Touching ==
    {c \in Range(circuit.connections) :
        connection[c].source \in SelectedPorts \/ connection[c].target \in SelectedPorts}

\* C16: after delete_selected_component has deleted the selected instance,
\* no connection of circuit.connections ends on one of its ports, its ports
\* have empty connections_in and connections_out, and circuit.connections
\* has lost exactly the connections that touched the instance.
DeletedComponentLeavesNoConnection ==
    [][DeletesSelectedComponent /\ DeleteSelectedComponent
          => /\ \A c \in Range(circuit'.connections) :
                   /\ connection'[c].source \notin SelectedPorts
                   /\ connection'[c].target \notin SelectedPorts
             /\ \A q \in SelectedPorts :
                   /\ ComponentDeleted.port[q].connections_in = <<>>
                   /\ ComponentDeleted.port[q].connections_out = <<>>
             /\ Len(circuit'.connections)
                   = Len(circuit.connections) - Cardinality(Touching)
             /\ circuit'.connections
                   = SelectSeq(circuit.connections, LAMBDA c : c \notin Touching)
             /\ ~In(circuit.selected_element, circuit'.component_instances)]_vars

\* C16's case: the instance is gone and so is the first connection made,
\* while a connection between the external ports has been kept
DeletedComponentWitness ==
    /\ circuit.component_instances = <<>>
    /\ circuit.selected_element = NoneObj
    /\ ConnectionObj(1) \notin DOMAIN connection
    /\ ConnectionObj(2) \in Range(circuit.connections)

\* no connection of the state st ends on a port of an instance that is not
\* in its circuit.component_instances
NoDanglingConnection(st) ==
    \A c \in Range(st.circuit.connections) :
        \A q \in {st.connection[c].source, st.connection[c].target} :
            IsInstance(st.port[q].parent, "ComponentInstance")
                => In(st.port[q].parent, st.circuit.component_instances)

\* C17: when delete_selected_component takes the instance out of
\* circuit.component_instances, no connection of circuit.connections ends on
\* one of its ports any more.
ConnectionsLeaveBeforeInstance ==
    [][DeletesSelectedComponent /\ DeleteSelectedComponent
          => NoDanglingConnection(InstanceTakenOut.st)]_vars

\* C18: a port of a causal domain has the direction `in` or `out` and a
\* port of a non-causal domain has the direction `inout`, after every
\* assignment to a domain or a direction, raising or not.
DirectionMatchesDomain ==
    \A q \in DOMAIN port :
        IF Domain[port[q].domain].causal
        THEN port[q].direction \in {"in", "out"}
        ELSE port[q].direction = "inout"

\* C19: constructing a port of a causal domain with the direction `inout`
\* raises and adds no port, in either order of the two assignments.
CausalInoutIsRefused ==
    [][\A n \in ConstructedNames, d \in DomainNames, domain_first \in BOOLEAN :
          Domain[d].causal /\ ConstructPort(n, d, "inout", domain_first)
          => /\ last' = "ValueError"
             /\ circuit'.ports = circuit.ports
             /\ port' = port]_vars

\* C20: no two ports of circuit.ports have the same name, after every
\* builder operation on ports and every port click.
PortNamesAreUnique ==
    \A j, k \in DOMAIN circuit.ports :
        j # k => port[circuit.ports[j]].name # port[circuit.ports[k]].name

\* every port still alive keeps its traits
PortsUntouched == \A q \in DOMAIN port' : port'[q] = port[q]

\* C21: a click on a connection that is not selected selects it and deletes
\* nothing; a click on the selected connection removes it from
\* circuit.connections and from the adjacency lists and selects nothing.
SecondClickDeletesConnection ==
    [][\A c \in ShownConnections :
          ConnectionMsg(c)
          => IF circuit.selected_element = c
             THEN /\ circuit'.connections = Without(circuit.connections, c)
                  /\ \A q \in DOMAIN port' :
                        ~In(c, port'[q].connections_in \o port'[q].connections_out)
                  /\ circuit'.selected_element = NoneObj
             ELSE /\ circuit'.selected_element = c
                  /\ circuit'.connections = circuit.connections
                  /\ PortsUntouched]_vars

\* C21's case: one of two connections has been clicked once and is selected
SelectedConnectionWitness ==
    /\ Len(circuit.connections) = 2
    /\ In(circuit.selected_element, circuit.connections)

\* C22: a click on a port p while another port s is selected makes exactly
\* one connection between s and p and keeps s selected if
\* valid_connection(s, p) accepts, and makes none and selects p if not.
ClickOnSecondPortConnects ==
    [][\A p \in ShownPorts :
          /\ IsInstance(circuit.selected_element, "Port")
          /\ circuit.selected_element # p
          /\ PortMsg(p)
          => IF ValidConnection(circuit.selected_element, p).ok
             THEN /\ circuit'.connections = Append(circuit.connections, NextConnection)
                  /\ {connection'[NextConnection].source, connection'[NextConnection].target}
                        = {circuit.selected_element, p}
                  /\ circuit'.selected_element = circuit.selected_element
             ELSE /\ circuit'.connections = circuit.connections
                  /\ circuit'.selected_element = p]_vars

\* C22's case: a port is selected and the connection made last ends on it
ClickConnectedWitness ==
    /\ IsInstance(circuit.selected_element, "Port")
    /\ circuit.connections # <<>>
    /\ circuit.selected_element
          \in {At(Len(circuit.connections)).source, At(Len(circuit.connections)).target}

\* C23: a click on the selected port selects nothing, a click on a port
\* while no port is selected selects that port, and neither changes
\* circuit.connections.
PortClickToggles ==
    [][\A p \in ShownPorts :
          PortMsg(p)
          => /\ circuit.selected_element = p
                  => /\ circuit'.selected_element = NoneObj
                     /\ circuit'.connections = circuit.connections
             /\ ~IsInstance(circuit.selected_element, "Port")
                  => /\ circuit'.selected_element = p
                     /\ circuit'.connections = circuit.connections]_vars

\* C23's case: a port is selected while a connection exists that does not
\* end on it
PortToggleWitness ==
    /\ IsInstance(circuit.selected_element, "Port")
    /\ circuit.connections # <<>>
    /\ \A k \in Places : circuit.selected_element \notin {At(k).source, At(k).target}

\* C24: a click on the canvas leaves nothing selected and changes neither
\* the ports, the instances, the connections nor the pending callbacks.
CanvasClickOnlyDeselects ==
    [][Msg => /\ circuit' = [circuit EXCEPT !.selected_element = NoneObj]
              /\ port' = port
              /\ instance' = instance
              /\ connection' = connection
              /\ svg' = svg]_vars

\* C24's case: nothing is selected in a circuit with a connection and a
\* pending callback
CanvasClickWitness ==
    /\ circuit.selected_element = NoneObj
    /\ circuit.connections # <<>>
    /\ svg.callbacks # <<>>
    /\ last = "done"

\* C25: the k-th captured_svg event invokes the callback the k-th
\* capture_svg call registered, and no other, with the data of that event.
CallbacksArePaired ==
    [][CapturedSvg
          => /\ svg'.called.by \in {0, Head(svg.pending)}
             /\ In(Head(svg.pending), svg.callbacks)
                   => svg'.called = [by |-> Head(svg.pending),
                                     data |-> svg'.snapshots[Head(svg.pending)]]]_vars

\* the text is empty or the name of an external port
PortNameTaken(text) ==
    text = "" \/ \E q \in Range(circuit.ports) : port[q].name = text

\* the text is empty or the name of an instance of the circuit
ComponentNameTaken(text) ==
    text = "" \/ \E i \in Range(circuit.component_instances) : instance[i].name = text

\* C26: _add_port and _rename_port with an empty text or the name of an
\* external port, and _add_component and _rename_component with an empty
\* text or the name of an instance, change nothing and raise nothing.
TakenNameIsNoOp ==
    [][(\/ \E text \in PortNameTexts :
              /\ PortNameTaken(text)
              /\ \/ \E d \in BuilderDomains, dir \in DirectionValues : AddPort(text, d, dir)
                 \/ IsInstance(circuit.selected_element, "Port") /\ RenamePort(text)
        \/ \E text \in ComponentNameTexts :
              /\ ComponentNameTaken(text)
              /\ \/ \E ctype \in BuilderComponents : AddComponent(ctype, text)
                 \/ IsInstance(circuit.selected_element, "ComponentInstance")
                       /\ RenameComponent(text))
          => /\ circuit' = circuit
             /\ port' = port
             /\ instance' = instance
             /\ last' = "ignored"]_vars

\* C27: delete_selected_port when the selection is not an external port of
\* the circuit, and delete_selected_component when it is not an instance of
\* the circuit, change nothing.
DeleteOfForeignSelectionIsNoOp ==
    [][(\/ DeleteSelectedPort /\ ~In(circuit.selected_element, circuit.ports)
        \/ DeleteSelectedComponent
              /\ ~In(circuit.selected_element, circuit.component_instances))
          => UNCHANGED <<circuit, port, instance, connection>>]_vars

\* C27's case: a delete button has been pressed in vain while a connected
\* port of the instance is selected
ForeignDeleteWitness ==
    /\ last = "ignored"
    /\ IsInstance(circuit.selected_element, "Port")
    /\ ~IsExt(circuit.selected_element)
    /\ Degree(circuit.selected_element) > 0

----------------------------------------------------------------------------
(* Instances: the builder adds a second instance of the type Phase next to *)
(* one made before, and the clicks connect and disconnect their ports.     *)

InitInstances ==
    /\ circuit = ConstructedTwin.circuit
    /\ port = ConstructedTwin.port
    /\ instance = ConstructedTwin.instance
    /\ connection = ConstructedTwin.connection
    /\ last = "done"
    /\ nets = NoNets
    /\ svg = NoSvg

NextInstances ==
    \/ \E ctype \in BuilderComponents, text \in ComponentNameTexts : AddComponent(ctype, text)
    \/ \E p \in ShownPorts : PortMsg(p)
    \/ \E c \in ShownInstances : ComponentMsg(c)
    \/ \E c \in ShownConnections : ConnectionMsg(c)
    \/ DeleteSelectedComponent

SpecInstances == InitInstances /\ [][NextInstances]_vars

\* the ports of the types, as far as they are objects of the heap
AllTemplatePorts == UNION {TemplatePorts(t) : t \in TypeNames} \cap DOMAIN port

\* the connections listed by the port with traits pt
Listed(pt) == Range(pt.connections_in) \cup Range(pt.connections_out)

\* every instance has its own ports, with the names, domains and directions
\* of its type's template ports in their order, and no template port is
\* connected
InstancePortsAreCopies ==
    /\ \A i \in ShownInstances :
          LET tports == ComponentType[instance[i].ctype].ports
              ps == instance[i].ports
          IN  /\ Len(ps) = Len(tports)
              /\ \A k \in DOMAIN ps :
                    /\ PortInfoOf(State, ps[k]) = tports[k]
                    /\ ps[k] \notin AllTemplatePorts
                    /\ \A j \in ShownInstances \ {i} : ~In(ps[k], instance[j].ports)
    /\ \A q \in AllTemplatePorts : Listed(port[q]) = {}

\* C28: make_instance gives each instance new ports with the names, domains
\* and directions of the type's ports in the same order and with empty
\* connections_in and connections_out, and a connection made or removed
\* changes the adjacency of its own two ports only: never that of a
\* template port or of a port of another instance.
InstancesAreIndependent ==
    /\ []InstancePortsAreCopies
    /\ [][/\ \A i \in ShownInstances' \ ShownInstances :
                \A q \in Range(instance'[i].ports) :
                    q \notin DOMAIN port /\ Listed(port'[q]) = {}
          /\ \A q \in DOMAIN port \cap DOMAIN port' :
                \A c \in (Listed(port[q]) \ Listed(port'[q]))
                            \cup (Listed(port'[q]) \ Listed(port[q])) :
                    LET cn == IF c \in DOMAIN connection' THEN connection'[c]
                              ELSE connection[c]
                    IN  q \in {cn.source, cn.target}]_vars

\* C28's case: two instances of one type, the ports of one connected and
\* the ports of the other not
TwoInstancesWitness ==
    \E i, j \in ShownInstances :
        /\ i # j
        /\ instance[i].ctype = instance[j].ctype
        /\ \E q \in Range(instance[i].ports) : Degree(q) > 0
        /\ \A q \in Range(instance[j].ports) : Degree(q) = 0

----------------------------------------------------------------------------
(* Load: the circuit is connected and disconnected, written as a document, *)
(* and a document that differs from the written one in one reference or    *)
(* one definition is loaded in its place.                                  *)

\* a name no document defines
Undefined == "undefined"

\* the dict d without the key k
DropKey(d, k) == [x \in DOMAIN d \ {k} |-> d[x]]

\* the document obj and the documents that differ from it in one place: the
\* domain of a port, the type of an instance, the owner or the port name of
\* a connection's end, or a domain, a type or an instance no longer defined
Documents(obj) ==
    {obj}
      \cup {[obj EXCEPT !.ports[k].domain = Undefined] : k \in DOMAIN obj.ports}
      \cup {[obj EXCEPT !.component_types[ct].ports[1].domain = Undefined] :
               ct \in DOMAIN obj.component_types}
      \cup {[obj EXCEPT !.component_instances[n] = Undefined] :
               n \in DOMAIN obj.component_instances}
      \cup {[obj EXCEPT !.connections[k][e] = Undefined] :
               k \in DOMAIN obj.connections, e \in 1..4}
      \cup {[obj EXCEPT !.domains = DropKey(@, d)] : d \in DOMAIN obj.domains}
      \cup {[obj EXCEPT !.component_types = DropKey(@, ct)] :
               ct \in DOMAIN obj.component_types}
      \cup {[obj EXCEPT !.component_instances = DropKey(@, n)] :
               n \in DOMAIN obj.component_instances}

\* circuit = Circuit.from_jsonifiable(doc): the loaded circuit takes the
\* place of the old one, or the error is raised and nothing is assigned
Load(doc) ==
    LET loaded == FromJsonifiable(doc) IN
    IF loaded.ok THEN Return(loaded.st, "done") ELSE Ignore(loaded.error)

InitLoad ==
    /\ \E st \in {ConstructedField, ConstructedSignal} :
          /\ circuit = st.circuit
          /\ port = st.port
          /\ instance = st.instance
          /\ connection = st.connection
    /\ last = "done"
    /\ nets = NoNets
    /\ svg = NoSvg

NextLoad ==
    \/ \E p1, p2 \in ShownPorts : Connect(p1, p2)
    \/ \E c \in ShownConnections : DeleteConnection(c)
    \/ \E doc \in Documents(ToJsonifiable(State)) : Load(doc)

SpecLoad == InitLoad /\ [][NextLoad]_vars

\* the document obj defines the port pn of the owner cn
Defines(obj, cn, pn) ==
    IF cn = obj.name
    THEN \E k \in DOMAIN obj.ports : obj.ports[k].name = pn
    ELSE /\ cn \in DOMAIN obj.component_instances
         /\ obj.component_instances[cn] \in DOMAIN obj.component_types
         /\ LET tports == obj.component_types[obj.component_instances[cn]].ports
            IN  \E k \in DOMAIN tports : tports[k].name = pn

\* a port of obj names a domain, an instance a type, or an end of a
\* connection an owner or a port that obj does not define
HasUndefinedReference(obj) ==
    \/ \E k \in DOMAIN obj.ports : obj.ports[k].domain \notin DOMAIN obj.domains
    \/ \E ct \in DOMAIN obj.component_types :
          \E k \in DOMAIN obj.component_types[ct].ports :
              obj.component_types[ct].ports[k].domain \notin DOMAIN obj.domains
    \/ \E n \in DOMAIN obj.component_instances :
          obj.component_instances[n] \notin DOMAIN obj.component_types
    \/ \E k \in DOMAIN obj.connections :
          \/ ~Defines(obj, obj.connections[k][1], obj.connections[k][2])
          \/ ~Defines(obj, obj.connections[k][3], obj.connections[k][4])

\* C29: a document in which a port names an undefined domain, an instance
\* an undefined type, or a connection an undefined owner or port is not
\* loaded: from_jsonifiable raises KeyError and returns no circuit.
MalformedDocumentIsNotLoaded ==
    \A doc \in Documents(ToJsonifiable(State)) :
        HasUndefinedReference(doc)
            => /\ ~FromJsonifiable(doc).ok
               /\ FromJsonifiable(doc).error = "KeyError"

\* C29's case: the load of a document of a connected circuit has raised
\* KeyError, and the circuit is the one it was
MalformedLoadWitness ==
    /\ last = "KeyError"
    /\ circuit.connections # <<>>
    /\ ~HasUndefinedReference(ToJsonifiable(State))

----------------------------------------------------------------------------
(* Scenario: the Mach-Zehnder circuit of the test; its connections are     *)
(* deleted one by one, its nets are asked for, and it is written and       *)
(* loaded again.                                                           *)

\* mz of test_mach_zehnder: ports In1, In2, Control, Out1, Out2, instances
\* b1, b2 (Beamsplitter) and phi (Phase), and the eight connections
ConstructedMachZehnder ==
    LET b1 == 1
        b2 == 2
        phi == 3
        st0 == EmptyCircuit("MachZehnder")
        st1 == MakeInstance(st0, InstanceObj(b1), "Beamsplitter", "b1")
        st2 == MakeInstance(st1, InstanceObj(b2), "Beamsplitter", "b2")
        st3 == MakeInstance(st2, InstanceObj(phi), "Phase", "phi")
        st4 == WithPorts(st3, <<PortInfo("In1", "fieldmode", "in"),
                                PortInfo("In2", "fieldmode", "in"),
                                PortInfo("Control", "electrical", "inout"),
                                PortInfo("Out1", "fieldmode", "out"),
                                PortInfo("Out2", "fieldmode", "out")>>)
        st5 == SetPorts(st4, [k \in 1..5 |-> PortObj(0, k)]).st
        st6 == SetComponentInstances(st5, <<InstanceObj(b1), InstanceObj(b2),
                                            InstanceObj(phi)>>).st
    IN  MakeConnections(st6,
           <<<<PortObj(0, 1), PortObj(b1, 1)>>,
             <<PortObj(0, 2), PortObj(b1, 2)>>,
             <<PortObj(b1, 3), PortObj(phi, 1)>>,
             <<PortObj(b1, 4), PortObj(b2, 1)>>,
             <<PortObj(phi, 3), PortObj(b2, 2)>>,
             <<PortObj(b2, 3), PortObj(0, 4)>>,
             <<PortObj(b2, 4), PortObj(0, 5)>>,
             <<PortObj(0, 3), PortObj(phi, 2)>>>>)

InitScenario ==
    /\ circuit = ConstructedMachZehnder.circuit
    /\ port = ConstructedMachZehnder.port
    /\ instance = ConstructedMachZehnder.instance
    /\ connection = ConstructedMachZehnder.connection
    /\ last = "done"
    /\ nets = NoNets
    /\ svg = NoSvg

NextScenario ==
    \/ \E c \in ShownConnections : DeleteConnection(c)
    \/ \E d \in BuilderDomains : GetNets(d)
    \/ Load(ToJsonifiable(State))

SpecScenario == InitScenario /\ [][NextScenario]_vars

\* the nets of a get_nets answer, each port as (owner's name, port's name)
NamedNets(st, value) ==
    [j \in DOMAIN value |->
        [k \in DOMAIN value[j] |->
            <<ParentName(st, value[j][k]), st.port[value[j][k]].name>>]]

\* the one net the scenario expects, and the connections of the test
ControlNet == <<<<<<"MachZehnder", "Control">>, <<"phi", "Control">>>>>>
TestConnections == ToJsonifiable(ConstructedMachZehnder).connections

\* C30: while the Mach-Zehnder circuit has the eight connections of the
\* test, get_nets for the domain electrical returns exactly one net, the
\* circuit's port Control followed by phi's port Control, on the circuit
\* itself and on the circuit loaded from its written document.
MachZehnderControlNet ==
    ToJsonifiable(State).connections = TestConnections
        => /\ ~GetNetsOf(State, "electrical").raised
           /\ NamedNets(State, GetNetsOf(State, "electrical").value) = ControlNet
           /\ LET loaded == FromJsonifiable(ToJsonifiable(State))
              IN  /\ loaded.ok
                  /\ ~GetNetsOf(loaded.st, "electrical").raised
                  /\ NamedNets(loaded.st, GetNetsOf(loaded.st, "electrical").value)
                        = ControlNet

\* C30's case: get_nets has answered for electrical on a Mach-Zehnder
\* circuit with its eight connections that was loaded from the document
MachZehnderWitness ==
    /\ last = "nets"
    /\ circuit # ConstructedMachZehnder.circuit
    /\ nets.domain = "electrical"
    /\ NamedNets(State, nets.value) = ControlNet
    /\ Len(circuit.connections) = 8
    /\ ToJsonifiable(State).connections = TestConnections

----------------------------------------------------------------------------
(* Trusted: connections are made without verification and removed.         *)

InitTrusted ==
    /\ \E built \in {ConstructedField, ConstructedSignal} :
          /\ circuit = built.circuit
          /\ port = built.port
          /\ instance = built.instance
          /\ connection = built.connection
    /\ last = "done"
    /\ nets = NoNets
    /\ svg = NoSvg

NextTrusted ==
    \/ \E p1, p2 \in ShownPorts : ConnectUnverified(p1, p2)
    \/ \E c \in ShownConnections : DeleteConnection(c)

SpecTrusted == InitTrusted /\ [][NextTrusted]_vars

\* C31: connect(p1, p2, verify=False) makes exactly one connection between
\* p1 and p2 for every pair of ports, also one valid_connection rejects: it
\* is appended to circuit.connections, once to its source's connections_out
\* and once to its target's connections_in, and nothing else changes.
UnverifiedConnectAlwaysConnects ==
    [][\A p1, p2 \in ShownPorts :
          ConnectUnverified(p1, p2)
          => /\ last' = "done"
             /\ circuit'.connections = Append(circuit.connections, NextConnection)
             /\ DOMAIN connection' = DOMAIN connection \cup {NextConnection}
             /\ \A c \in DOMAIN connection : connection'[c] = connection[c]
             /\ LET new == connection'[NextConnection]
                IN  /\ <<new.source, new.target>> \in {<<p1, p2>>, <<p2, p1>>}
                    /\ \A q \in DOMAIN port :
                          /\ port'[q].connections_out
                                = IF q = new.source
                                  THEN Append(port[q].connections_out, NextConnection)
                                  ELSE port[q].connections_out
                          /\ port'[q].connections_in
                                = IF q = new.target
                                  THEN Append(port[q].connections_in, NextConnection)
                                  ELSE port[q].connections_in]_vars

\* C31's case: the circuit holds a connection from a port to itself and a
\* connection between ports of different domains
UnverifiedConnectWitness ==
    /\ last = "done"
    /\ \E k \in Places : At(k).source = At(k).target
    /\ \E k \in Places : port[At(k).source].domain # port[At(k).target].domain

----------------------------------------------------------------------------
(* Image: snapshots are requested and answered, and the last one is saved  *)
(* under one of a few file names.                                          *)

InitImage ==
    /\ circuit = ConstructedBare.circuit
    /\ port = ConstructedBare.port
    /\ instance = ConstructedBare.instance
    /\ connection = ConstructedBare.connection
    /\ last = "done"
    /\ nets = NoNets
    /\ svg = NoSvg

NextImage ==
    \/ \E with_callback \in BOOLEAN : CaptureSvg(with_callback)
    \/ CapturedSvg
    \/ \E filename \in FileNames, cairosvg \in BOOLEAN : SaveLastImage(filename, cairosvg)

SpecImage == InitImage /\ [][NextImage]_vars

\* C32: save_last_image with a file name whose extension is not .svg, .png
\* or .pdf raises an error and writes no file, with or without a snapshot.
UnknownFormatIsRefused ==
    [][\A filename \in FileNames, cairosvg \in BOOLEAN :
          /\ LastFour(filename) \notin {DotSvg, DotPng, DotPdf}
          /\ SaveLastImage(filename, cairosvg)
          => /\ last' = "ValueError"
             /\ svg'.files = svg.files]_vars

\* C33: valid_connection(p1, p2) accepts exactly when valid_connection(p2, p1)
\* accepts, and in a causal domain both return the same (source, target).
ValidConnectionIsSymmetric ==
    \A p1, p2 \in ShownPorts :
        /\ ValidConnection(p1, p2).ok = ValidConnection(p2, p1).ok
        /\ ValidConnection(p1, p2).ok /\ Domain[port[p1].domain].causal
              => ValidConnection(p1, p2) = ValidConnection(p2, p1)

----------------------------------------------------------------------------
(* Selection: the clicks and the builder's port and delete handlers on a   *)
(* circuit with two external ports and an instance; the ports the builder  *)
(* adds are electrical.                                                    *)

InitSelection ==
    /\ circuit = ConstructedPair.circuit
    /\ port = ConstructedPair.port
    /\ instance = ConstructedPair.instance
    /\ connection = ConstructedPair.connection
    /\ last = "done"
    /\ nets = NoNets
    /\ svg = NoSvg

NextSelection ==
    \/ \E p \in ShownPorts : PortMsg(p)
    \/ \E c \in ShownInstances : ComponentMsg(c)
    \/ \E c \in ShownConnections : ConnectionMsg(c)
    \/ Msg
    \/ \E text \in PortNameTexts, dir \in DirectionValues : AddPort(text, "electrical", dir)
    \/ \E text \in PortNameTexts : RenamePort(text)
    \/ DeleteSelectedComponent
    \/ DeleteSelectedPort
    \/ MoveSelectedPortUp
    \/ MoveSelectedPortDown

SpecSelection == InitSelection /\ [][NextSelection]_vars

\* C34: selected_element is None, an external port of circuit.ports, an
\* instance of circuit.component_instances, a port of such an instance or a
\* connection of circuit.connections, after every click and every builder
\* operation.
SelectionBelongsToCircuit ==
    \/ circuit.selected_element = NoneObj
    \/ In(circuit.selected_element, circuit.ports)
    \/ In(circuit.selected_element, circuit.component_instances)
    \/ circuit.selected_element
          \in PortsOfInstances(State, Range(circuit.component_instances))
    \/ In(circuit.selected_element, circuit.connections)

\* C35: both ends of every connection of circuit.connections are ports of
\* circuit.ports or ports of an instance of circuit.component_instances,
\* after every connect, removal, delete_selected_port and
\* delete_selected_component.
NoDanglingEndpoint ==
    \A k \in Places : {At(k).source, At(k).target} \subseteq ShownPorts

\* C35's case: an external port that had a connection has been deleted and
\* a connection made after that one is still in the circuit
DeletedPortWitness ==
    /\ Len(circuit.ports) < Len(ConstructedSignal.circuit.ports)
    /\ circuit.connections = <<ConnectionObj(2)>>
    /\ last = "done"

\* C36: the keys of circuit.p are exactly the names of the ports of
\* circuit.ports and each key maps to the external port of that name, after
\* every port click and every builder operation on ports.
PortMapMatchesPorts ==
    /\ DOMAIN circuit.p = {port[q].name : q \in Range(circuit.ports)}
    /\ \A n \in DOMAIN circuit.p :
          /\ In(circuit.p[n], circuit.ports)
          /\ port[circuit.p[n]].name = n

\* C37: every connection of circuit.connections joins two distinct ports of
\* one domain, after every verified connect and every removal.
ConnectionsJoinOneDomain ==
    \A k \in Places :
        /\ At(k).source # At(k).target
        /\ port[At(k).source].domain = port[At(k).target].domain

\* C37's case: a connect has been refused while the circuit holds a
\* connection of a causal and a connection of a non-causal domain
TwoDomainsWitness ==
    /\ last = "rejected"
    /\ \E j, k \in Places :
          /\ Domain[port[At(j).source].domain].causal
          /\ ~Domain[port[At(k).source].domain].causal

----------------------------------------------------------------------------
(* Removed: connections are made, selected by a click and removed, by      *)
(* delete_connection or through the selection, which keeps a removed       *)
(* connection alive.                                                       *)

InitRemoved ==
    /\ circuit = ConstructedSignal.circuit
    /\ port = ConstructedSignal.port
    /\ instance = ConstructedSignal.instance
    /\ connection = ConstructedSignal.connection
    /\ last = "done"
    /\ nets = NoNets
    /\ svg = NoSvg

NextRemoved ==
    \/ \E p1, p2 \in ShownPorts : Connect(p1, p2)
    \/ \E c \in ShownConnections : DeleteConnection(c)
    \/ \E c \in ShownConnections : ConnectionMsg(c)
    \/ RemoveSelected

SpecRemoved == InitRemoved /\ [][NextRemoved]_vars

\* the selected element is a connection that has been removed
SelectedIsRemoved ==
    /\ IsInstance(circuit.selected_element, "Connection")
    /\ ~In(circuit.selected_element, circuit.connections)

\* C38: remove() on a connection that has been removed raises nothing and
\* leaves circuit.connections and the adjacency lists of every port as they
\* are.
SecondRemoveChangesNothing ==
    [][SelectedIsRemoved /\ RemoveSelected
          => /\ last' = "done"
             /\ circuit' = circuit
             /\ port' = port
             /\ connection' = connection]_vars

\* C38's case: remove() has returned on a removed connection while its two
\* ports are joined by a connection made later
SecondRemoveWitness ==
    /\ SelectedIsRemoved
    /\ last = "done"
    /\ \E k \in Places : At(k) = connection[circuit.selected_element]

----------------------------------------------------------------------------
(* Order: external ports are added, selected, connected by clicks and      *)
(* moved up and down.                                                      *)

InitOrder ==
    /\ circuit = ConstructedPair.circuit
    /\ port = ConstructedPair.port
    /\ instance = ConstructedPair.instance
    /\ connection = ConstructedPair.connection
    /\ last = "done"
    /\ nets = NoNets
    /\ svg = NoSvg

NextOrder ==
    \/ \E p \in ShownPorts : PortMsg(p)
    \/ \E text \in PortNameTexts, dir \in DirectionValues : AddPort(text, "electrical", dir)
    \/ MoveSelectedPortUp
    \/ MoveSelectedPortDown

SpecOrder == InitOrder /\ [][NextOrder]_vars

\* the list ps with the entries at the places i and j exchanged
Swapped(ps, i, j) ==
    [x \in DOMAIN ps |-> IF x = i THEN ps[j] ELSE IF x = j THEN ps[i] ELSE ps[x]]

\* the place of the selected external port in circuit.ports, from 1
SelectedPlace == Index(circuit.ports, circuit.selected_element) + 1

\* the lists move_selected_port_up and move_selected_port_down assign for
\* the port p of the list ps
MovedUp(ps, p) ==
    InsertAt(Pop(ps, Index(ps, p)), (IF Index(ps, p) > 1 THEN Index(ps, p) ELSE 1) - 1, p)
MovedDown(ps, p) == InsertAt(Pop(ps, Index(ps, p)), Index(ps, p) + 1, p)

\* C39: move_selected_port_up exchanges the selected external port with the
\* port before it and move_selected_port_down with the port after it, or
\* leave circuit.ports alone when there is none; the connections, the
\* adjacency lists, the instances and the selection stay as they are, and
\* up followed by down restores the order when the port is not the first.
MoveOnlyPermutes ==
    /\ [](In(circuit.selected_element, circuit.ports) /\ SelectedPlace > 1
             => MovedDown(MovedUp(circuit.ports, circuit.selected_element),
                          circuit.selected_element) = circuit.ports)
    /\ [][/\ In(circuit.selected_element, circuit.ports) /\ MoveSelectedPortUp
                => circuit'.ports = IF SelectedPlace > 1
                                    THEN Swapped(circuit.ports, SelectedPlace - 1, SelectedPlace)
                                    ELSE circuit.ports
          /\ In(circuit.selected_element, circuit.ports) /\ MoveSelectedPortDown
                => circuit'.ports = IF SelectedPlace < Len(circuit.ports)
                                    THEN Swapped(circuit.ports, SelectedPlace, SelectedPlace + 1)
                                    ELSE circuit.ports
          /\ In(circuit.selected_element, circuit.ports)
                /\ (MoveSelectedPortUp \/ MoveSelectedPortDown)
                => /\ circuit'.connections = circuit.connections
                   /\ circuit'.selected_element = circuit.selected_element
                   /\ circuit'.component_instances = circuit.component_instances
                   /\ port' = port
                   /\ instance' = instance
                   /\ connection' = connection]_vars

\* C39's case: of three external ports, the one that was first is selected
\* and has been moved to the last place, and a connection exists
MovedWitness ==
    /\ Len(circuit.ports) = 3
    /\ circuit.ports[3] = ConstructedPair.circuit.ports[1]
    /\ circuit.selected_element = circuit.ports[3]
    /\ circuit.connections # <<>>
    /\ last = "done"

\* C40: a captured_svg event appends one entry to svg_snapshots; it calls
\* the callback registered first among those still waiting and takes it off
\* the list, or calls nothing when none waits; capture_svg calls nothing
\* and keeps the waiting callbacks in their order. So every callback is
\* called at most once and the callbacks are called in the order of their
\* registration: the one called last is older than all that wait.
CallbacksRunOnceInOrder ==
    /\ [](\A k \in DOMAIN svg.callbacks :
             /\ svg.called.by < svg.callbacks[k]
             /\ \A j \in DOMAIN svg.callbacks : j < k => svg.callbacks[j] < svg.callbacks[k])
    /\ [][/\ CapturedSvg
                => /\ svg'.snapshots = Append(svg.snapshots, Len(svg.snapshots) + 1)
                   /\ IF svg.callbacks = <<>>
                      THEN svg'.called.by = 0 /\ svg'.callbacks = <<>>
                      ELSE /\ svg'.called.by = Head(svg.callbacks)
                           /\ svg'.callbacks = Tail(svg.callbacks)
          /\ (\E with_callback \in BOOLEAN : CaptureSvg(with_callback))
                => /\ svg'.called = svg.called
                   /\ svg'.snapshots = svg.snapshots
                   /\ SubSeq(svg'.callbacks, 1, Len(svg.callbacks)) = svg.callbacks]_vars

\* C40's case: a second event has called a callback registered after the
\* first request, and a callback is still waiting
CallbacksWitness ==
    /\ Len(svg.snapshots) > 1
    /\ svg.called.by > 1
    /\ svg.callbacks # <<>>

====
